---------------------------- MODULE Spec2Model ----------------------------
(***************************************************************************)
(* hopper: a multi-producer / single-consumer queue with bounded memory    *)
(* that pages to disk.                                                     *)
(*                                                                         *)
(* The model follows src/src/deque.rs (the ring buffer with split locks),  *)
(* src/src/sender.rs (send, flush, write_to_disk), src/src/private.rs      *)
(* (Placement, read_seq_num, read_seq_num_min) and src/src/lib.rs          *)
(* (channel_with_explicit_capacity).  The deque-draining Receiver that     *)
(* lib.rs constructs with Receiver::new(&root, q, max_disk_files) is not   *)
(* among the sources (src/src/receiver.rs holds an unrelated memory-map    *)
(* prototype that never touches the deque); next_value and                 *)
(* read_disk_value are modelled from section 4.5 of the specification.     *)
(*                                                                         *)
(* Every send and flush runs from lock_back() to the drop of the back      *)
(* guard, so at most one sender is ever inside a call; the caller is the   *)
(* holder of back_lock and the position inside the call is spc.            *)
(***************************************************************************)
EXTENDS Integers, Sequences, FiniteSets, TLC

(***************************************************************************)
(* Bounds of the model.                                                    *)
(***************************************************************************)
NumSenders == 2          \* cloned senders
MaxCalls == 4            \* send calls in a run with several senders
MaxCallsOne == 6         \* send calls in a run with a single sender

(***************************************************************************)
(* Program constants.                                                      *)
(***************************************************************************)
PAYLOAD_LEN_BYTES == 4          \* size_of::<u32>()
MinDiskBytes == 1048576         \* 0x100_000, the floor of max_disk_bytes
BufWriterCapacity == 8192       \* std::io::BufWriter default capacity
SizeOfT == 8                    \* mem::size_of::<u64>(), the tests' T

Senders == 1..NumSenders
RCV == NumSenders + 1           \* the consumer, as a holder of front_lock
FileIds == 0..(MaxCallsOne + 1) \* sequence numbers a run can reach

Max(a, b) == IF a >= b THEN a ELSE b

(***************************************************************************)
(* Inputs of channel_with_explicit_capacity the runs draw from, and the    *)
(* serialized payload lengths write_to_disk can meet: a record that the    *)
(* BufWriter keeps buffered when it is empty (4 + 6000 bytes) and that     *)
(* makes it flush in the middle of a record when it is not, a record that  *)
(* fills a queue file exactly (4 + 1048572 = 1048576 bytes) and a record   *)
(* larger than a queue file (4 + 1048576 bytes); the payloads of the last  *)
(* two are written through.  max_memory_bytes = 4 is less than one T.      *)
(***************************************************************************)
MemoryBytesArgs == {4, 16}
DiskBytesArgs == {32}
DiskFilesArgs == {0, 1, 2}
PayloadLens == {6000, 1048572, 1048576}

(***************************************************************************)
(* private::Placement, and the null pointer of an empty slot.              *)
(***************************************************************************)
NoVal == <<0, 0>>
NullPtr == [tag |-> "Null", v |-> NoVal, n |-> 0]
Memory(elem) == [tag |-> "Memory", v |-> elem, n |-> 0]
Disk(sz) == [tag |-> "Disk", v |-> NoVal, n |-> sz]

VARIABLES
  cfg,                 \* [max_memory_bytes, capacity, max_disk_bytes, max_disk_files, senders, calls]
  data,                \* InnerQueue.data: slot -> Placement or NullPtr
  size,                \* InnerQueue.size (atomic)
  back,                \* BackGuardInner<SenderSync>
  wbuf,                \* bytes held by sender_fp's BufWriter: [recs, bytes, tail]
  back_lock,           \* holder of back_lock: 0 or a sender
  front_lock,          \* holder of front_lock: 0, a sender or RCV
  front_offset,        \* FrontGuardInner.offset
  fs,                  \* queue files: seq -> [exists, readonly, recs, bytes, part]
  disk_files_capacity, \* the shared remaining-files counter (atomic)
  spc,                 \* position of the sender inside send / flush
  call,                \* locals of the running call
  rcv,                 \* the consumer: [pc, fp, pos, disk_writes_to_read, elem, seq_num, last]
  hist                 \* observations: calls, sent, rejected, received, result

vars == <<cfg, data, size, back, wbuf, back_lock, front_lock, front_offset,
          fs, disk_files_capacity, spc, call, rcv, hist>>

NoCall == [op |-> "none", event |-> NoVal, payload_len |-> 0, ctx |-> "none",
           tdw0 |-> 0]
NoResult == [p |-> 0, op |-> "none", kind |-> "none", val |-> NoVal]
\* A file holds whole records and, in part, the bytes of a last record that
\* is not whole yet; tail says that the first record of the buffer is the
\* rest of that record.
NoFile == [exists |-> FALSE, readonly |-> FALSE, recs |-> <<>>, bytes |-> 0,
           part |-> 0]
EmptyBuf == [recs |-> <<>>, bytes |-> 0, tail |-> FALSE]

(***************************************************************************)
(* channel_with_explicit_capacity: the slot count and the per-file cap.    *)
(***************************************************************************)
\* Faulty variant of total_memory_limit: one slot more than the memory
\* budget pays for.
total_memory_limit_plus_one(max_memory_bytes, sz) ==
  Max(1, max_memory_bytes \div sz) + 1

total_memory_limit(max_memory_bytes, sz) == Max(1, max_memory_bytes \div sz)
effective_max_disk_bytes(max_disk_bytes) == Max(MinDiskBytes, max_disk_bytes)

(***************************************************************************)
(* private::read_seq_num and read_seq_num_min over the files of root.      *)
(***************************************************************************)
Existing(files) == {k \in FileIds : files[k].exists}
SetMax(S) == CHOOSE x \in S : \A y \in S : y <= x
SetMin(S) == CHOOSE x \in S : \A y \in S : x <= y
read_seq_num(files) == IF Existing(files) = {} THEN 0 ELSE SetMax(Existing(files))
read_seq_num_min(files) == SetMin(Existing(files))

(***************************************************************************)
(* The state after channel_with_explicit_capacity(name, data_dir,          *)
(* max_memory_bytes, max_disk_bytes, max_disk_files): root is wiped,       *)
(* Sender::new opens root/0 for append and Receiver::new opens the file    *)
(* with the smallest sequence number.                                      *)
(***************************************************************************)
InitWith(mem_args, bytes_args, files_args, nsenders, ncalls) ==
  /\ cfg \in {[max_memory_bytes |-> m,
               capacity |-> total_memory_limit(m, SizeOfT),
               max_disk_bytes |-> effective_max_disk_bytes(b),
               max_disk_files |-> f,
               senders |-> nsenders,
               calls |-> ncalls] :
                 m \in mem_args, b \in bytes_args, f \in files_args}
  /\ data = [i \in 0..(cfg.capacity - 1) |-> NullPtr]
  /\ size = 0
  /\ fs = [k \in FileIds |-> IF k = 0 THEN [NoFile EXCEPT !.exists = TRUE] ELSE NoFile]
  /\ back = [offset |-> 0,
             sender_fp |-> read_seq_num([k \in FileIds |-> NoFile]),
             bytes_written |-> 0,
             sender_seq_num |-> read_seq_num([k \in FileIds |-> NoFile]),
             total_disk_writes |-> 0,
             path |-> read_seq_num([k \in FileIds |-> NoFile])]
  /\ wbuf = EmptyBuf
  /\ back_lock = 0
  /\ front_lock = 0
  /\ front_offset = 0
  /\ disk_files_capacity = cfg.max_disk_files
  /\ spc = "idle"
  /\ call = NoCall
  /\ rcv = [pc |-> "idle", fp |-> 0, pos |-> 0, disk_writes_to_read |-> 0,
            elem |-> NullPtr, seq_num |-> 0, last |-> "none"]
  /\ hist = [calls |-> 0, sent |-> <<>>, rejected |-> {},
             received |-> <<>>, result |-> NoResult]

Init == InitWith(MemoryBytesArgs, DiskBytesArgs, DiskFilesArgs, NumSenders, MaxCalls)

(***************************************************************************)
(* The end of a call: the back guard is dropped and the result observed.   *)
(* A send that fails gives the event back, so it leaves the list of sends  *)
(* that were accepted (it is the last one, the lock was held throughout).  *)
(***************************************************************************)
Return(p, kind) ==
  /\ back_lock' = 0
  /\ spc' = "idle"
  /\ call' = NoCall
  /\ hist' = [hist EXCEPT
       !.result = [p |-> p, op |-> call.op, kind |-> kind, val |-> call.event],
       !.sent = IF call.op = "send" /\ kind # "Ok"
                  THEN SubSeq(@, 1, Len(@) - 1) ELSE @,
       !.rejected = IF call.op = "send" /\ kind # "Ok"
                      THEN @ \cup {call.event} ELSE @]

(***************************************************************************)
(* std::io::BufWriter in front of a queue file.                            *)
(***************************************************************************)
\* Faulty variant of FlushTo: what the buffer held is put in front of what
\* the file holds.
FlushToFront(file, buf) ==
  IF buf.bytes = 0 THEN file
  ELSE [file EXCEPT !.recs = buf.recs \o @, !.bytes = @ + buf.bytes, !.part = 0]

FlushTo(file, buf) ==
  IF buf.bytes = 0 THEN file
  ELSE [file EXCEPT !.recs = @ \o buf.recs, !.bytes = @ + buf.bytes, !.part = 0]

\* flush_buf inside write(&buf[..]): the buffer ends with the length of the
\* record that is being written, which reaches the file without its payload.
FlushHeader(file, buf) ==
  [file EXCEPT !.recs = @ \o buf.recs, !.bytes = @ + buf.bytes,
               !.part = PAYLOAD_LEN_BYTES]

\* Faulty variant of send: the deque is tried first whatever the mode, so a
\* value can overtake the disk writes that no marker covers yet.
send_memory_first(p) ==
  /\ spc = "idle"
  /\ back_lock = 0
  /\ p <= cfg.senders
  /\ hist.calls < cfg.calls
  /\ back_lock' = p
  /\ call' = [op |-> "send", event |-> <<p, hist.calls + 1>>, payload_len |-> 0,
              ctx |-> "mem", tdw0 |-> back.total_disk_writes]
  /\ spc' = "push_back"
  /\ hist' = [hist EXCEPT !.calls = @ + 1,
                          !.sent = Append(@, <<p, hist.calls + 1>>)]
  /\ UNCHANGED <<cfg, data, size, back, wbuf, front_lock, front_offset, fs,
                 disk_files_capacity, rcv>>

(***************************************************************************)
(* Sender::send, from lock_back() to the choice of mode.                   *)
(***************************************************************************)
send(p) ==
  /\ spc = "idle"
  /\ back_lock = 0
  /\ p <= cfg.senders
  /\ hist.calls < cfg.calls
  /\ back_lock' = p
  /\ call' = [op |-> "send", event |-> <<p, hist.calls + 1>>, payload_len |-> 0,
              ctx |-> IF back.total_disk_writes = 0 THEN "mem" ELSE "disk",
              tdw0 |-> back.total_disk_writes]
  /\ spc' = IF back.total_disk_writes = 0 THEN "push_back" ELSE "write_to_disk"
  /\ hist' = [hist EXCEPT !.calls = @ + 1,
                          !.sent = Append(@, <<p, hist.calls + 1>>)]
  /\ UNCHANGED <<cfg, data, size, back, wbuf, front_lock, front_offset, fs,
                 disk_files_capacity, rcv>>

(***************************************************************************)
(* InnerQueue::push_back up to the slot write: Full when the slot under    *)
(* the back offset is occupied.  The caller's arm for Full follows: a      *)
(* memory-mode send goes on to write_to_disk, a disk-mode send returns Ok  *)
(* and keeps its count, flush returns NoFlush.                             *)
(***************************************************************************)
\* The records written to disk so far, in the order of their writes, and
\* those of them that total_disk_writes counts.
RECURSIVE RecordsFrom(_)
RecordsFrom(k) ==
  IF k \notin FileIds THEN <<>> ELSE fs[k].recs \o RecordsFrom(k + 1)

Written == RecordsFrom(0) \o wbuf.recs

Unpublished ==
  SubSeq(Written, Len(Written) - back.total_disk_writes + 1, Len(Written))

\* Faulty variant of Placed: the marker counts the caller's own disk writes
\* only, as if every clone kept a total_disk_writes of its own.
PlacedOwnWrites ==
  IF call.ctx = "mem"
    THEN Memory(call.event)
    ELSE Disk(Len(SelectSeq(Unpublished, LAMBDA v : v[1] = back_lock)))

Placed == IF call.ctx = "mem" THEN Memory(call.event)
                              ELSE Disk(back.total_disk_writes)

\* Faulty variant of push_back: a flush that finds its slot occupied forgets
\* the disk writes it had to publish.
push_back_forgets(p) ==
  /\ spc = "push_back"
  /\ back_lock = p
  /\ IF data[back.offset] # NullPtr
       THEN /\ UNCHANGED data
            /\ back' = IF call.ctx = "flush"
                         THEN [back EXCEPT !.total_disk_writes = 0] ELSE back
            /\ IF call.ctx = "mem"
                 THEN spc' = "write_to_disk" /\ UNCHANGED <<back_lock, call, hist>>
                 ELSE Return(p, IF call.ctx = "flush" THEN "NoFlush" ELSE "Ok")
       ELSE /\ data' = [data EXCEPT ![back.offset] = Placed]
            /\ back' = [back EXCEPT !.offset = (@ + 1) % cfg.capacity]
            /\ spc' = "fetch_add"
            /\ UNCHANGED <<back_lock, call, hist>>
  /\ UNCHANGED <<cfg, size, wbuf, front_lock, front_offset, fs,
                 disk_files_capacity, rcv>>

\* Faulty variant of push_back: a marker pushed while the newest placement
\* is a marker is added to that marker instead of taking a slot of its own.
push_back_coalesce(p) ==
  /\ spc = "push_back"
  /\ back_lock = p
  /\ LET prev == (back.offset + cfg.capacity - 1) % cfg.capacity
     IN  IF data[back.offset] # NullPtr
           THEN /\ UNCHANGED <<data, back>>
                /\ IF call.ctx = "mem"
                     THEN spc' = "write_to_disk" /\ UNCHANGED <<back_lock, call, hist>>
                     ELSE Return(p, IF call.ctx = "flush" THEN "NoFlush" ELSE "Ok")
           ELSE /\ IF call.ctx # "mem" /\ data[prev].tag = "Disk"
                     THEN /\ data' = [data EXCEPT ![prev] =
                                        Disk(data[prev].n + back.total_disk_writes)]
                          /\ back' = [back EXCEPT !.total_disk_writes = 0]
                          /\ Return(p, "Ok")
                     ELSE /\ data' = [data EXCEPT ![back.offset] = Placed]
                          /\ back' = [back EXCEPT !.offset = (@ + 1) % cfg.capacity]
                          /\ spc' = "fetch_add"
                          /\ UNCHANGED <<back_lock, call, hist>>
  /\ UNCHANGED <<cfg, size, wbuf, front_lock, front_offset, fs,
                 disk_files_capacity, rcv>>

\* Faulty variant of push_back: a disk-mode send whose marker finds no slot
\* starts its count afresh.
push_back_restarts_count(p) ==
  /\ spc = "push_back"
  /\ back_lock = p
  /\ IF data[back.offset] # NullPtr
       THEN /\ UNCHANGED data
            /\ back' = IF call.ctx = "disk"
                         THEN [back EXCEPT !.total_disk_writes = 1] ELSE back
            /\ IF call.ctx = "mem"
                 THEN spc' = "write_to_disk" /\ UNCHANGED <<back_lock, call, hist>>
                 ELSE Return(p, IF call.ctx = "flush" THEN "NoFlush" ELSE "Ok")
       ELSE /\ data' = [data EXCEPT ![back.offset] = Placed]
            /\ back' = [back EXCEPT !.offset = (@ + 1) % cfg.capacity]
            /\ spc' = "fetch_add"
            /\ UNCHANGED <<back_lock, call, hist>>
  /\ UNCHANGED <<cfg, size, wbuf, front_lock, front_offset, fs,
                 disk_files_capacity, rcv>>

push_back(p) ==
  /\ spc = "push_back"
  /\ back_lock = p
  /\ IF data[back.offset] # NullPtr
       THEN /\ UNCHANGED <<data, back>>
            /\ IF call.ctx = "mem"
                 THEN spc' = "write_to_disk" /\ UNCHANGED <<back_lock, call, hist>>
                 ELSE Return(p, IF call.ctx = "flush" THEN "NoFlush" ELSE "Ok")
       ELSE /\ data' = [data EXCEPT ![back.offset] = Placed]
            /\ back' = [back EXCEPT !.offset = (@ + 1) % cfg.capacity]
            /\ spc' = "fetch_add"
            /\ UNCHANGED <<back_lock, call, hist>>
  /\ UNCHANGED <<cfg, size, wbuf, front_lock, front_offset, fs,
                 disk_files_capacity, rcv>>

\* Faulty variant of push_back_fetch_add: a marker that went in leaves
\* total_disk_writes as it was.
push_back_fetch_add_no_reset(p) ==
  /\ spc = "fetch_add"
  /\ back_lock = p
  /\ size' = size + 1
  /\ IF size = 0
       THEN spc' = "lock_front" /\ UNCHANGED <<back_lock, call, hist>>
       ELSE Return(p, "Ok")
  /\ UNCHANGED <<cfg, data, back, wbuf, front_lock, front_offset, fs,
                 disk_files_capacity, rcv>>

(***************************************************************************)
(* InnerQueue::push_back from size.fetch_add on, and the caller's Ok arm:  *)
(* a marker that went in resets total_disk_writes, and must_wake sends the *)
(* caller to the front lock.                                               *)
(***************************************************************************)
push_back_fetch_add(p) ==
  /\ spc = "fetch_add"
  /\ back_lock = p
  /\ size' = size + 1
  /\ back' = IF call.ctx = "mem" THEN back
                                 ELSE [back EXCEPT !.total_disk_writes = 0]
  /\ IF size = 0
       THEN spc' = "lock_front" /\ UNCHANGED <<back_lock, call, hist>>
       ELSE Return(p, "Ok")
  /\ UNCHANGED <<cfg, data, wbuf, front_lock, front_offset, fs,
                 disk_files_capacity, rcv>>

\* Faulty variant of lock_front: the caller goes on to notify without the
\* front lock.
lock_front_not_taken(p) ==
  /\ spc = "lock_front"
  /\ back_lock = p
  /\ spc' = "notify"
  /\ front_lock' = IF front_lock = 0 THEN p ELSE front_lock
  /\ UNCHANGED <<cfg, data, size, back, wbuf, back_lock, front_offset, fs,
                 disk_files_capacity, call, rcv, hist>>

lock_front(p) ==
  /\ spc = "lock_front"
  /\ back_lock = p
  /\ front_lock = 0
  /\ front_lock' = p
  /\ spc' = "notify"
  /\ UNCHANGED <<cfg, data, size, back, wbuf, back_lock, front_offset, fs,
                 disk_files_capacity, call, rcv, hist>>

\* Faulty variant of notify_not_empty: the waiter is not signalled.
notify_without_wake(p) ==
  /\ spc = "notify"
  /\ back_lock = p
  /\ front_lock = p
  /\ front_lock' = 0
  /\ Return(p, "Ok")
  /\ UNCHANGED <<cfg, data, size, back, wbuf, front_offset, fs,
                 disk_files_capacity, rcv>>

\* Queue::notify_not_empty, then drop(front_guard) and the return of the call.
notify_not_empty(p) ==
  /\ spc = "notify"
  /\ back_lock = p
  /\ front_lock = p
  /\ rcv' = IF rcv.pc = "wait" THEN [rcv EXCEPT !.pc = "woken"] ELSE rcv
  /\ front_lock' = 0
  /\ Return(p, "Ok")
  /\ UNCHANGED <<cfg, data, size, back, wbuf, front_offset, fs,
                 disk_files_capacity>>

(***************************************************************************)
(* Sender::write_to_disk.                                                  *)
(***************************************************************************)
NoFp == 0 - 1

\* Faulty variant of write_to_disk: the byte cap is not looked at, a rollover
\* happens only when no file is open.
write_to_disk_no_cap(p) ==
  /\ spc = "write_to_disk"
  /\ back_lock = p
  /\ \E payload_len \in PayloadLens :
       /\ call' = [call EXCEPT !.payload_len = payload_len]
       /\ IF back.sender_fp = NoFp
            THEN /\ fs' = IF fs[back.path].exists
                            THEN [fs EXCEPT ![back.path].readonly = TRUE]
                            ELSE fs
                 /\ back' = [back EXCEPT !.sender_seq_num = @ + 1,
                                         !.path = back.sender_seq_num + 1]
                 /\ spc' = "open"
            ELSE /\ UNCHANGED <<fs, back>>
                 /\ spc' = "write"
  /\ UNCHANGED <<cfg, data, size, wbuf, back_lock, front_lock, front_offset,
                 disk_files_capacity, rcv, hist>>

\* Faulty variant of write_to_disk: a rollover leaves the current path
\* writable.
write_to_disk_no_seal(p) ==
  /\ spc = "write_to_disk"
  /\ back_lock = p
  /\ \E payload_len \in PayloadLens :
       LET bytes_written == back.bytes_written + payload_len + PAYLOAD_LEN_BYTES
       IN  /\ call' = [call EXCEPT !.payload_len = payload_len]
           /\ IF bytes_written > cfg.max_disk_bytes \/ back.sender_fp = NoFp
                THEN /\ back' = [back EXCEPT !.sender_seq_num = @ + 1,
                                             !.path = back.sender_seq_num + 1]
                     /\ spc' = "open"
                ELSE /\ UNCHANGED back
                     /\ spc' = "write"
  /\ UNCHANGED <<cfg, data, size, wbuf, back_lock, front_lock, front_offset,
                 fs, disk_files_capacity, rcv, hist>>

\* Faulty variant of write_to_disk: a write that would bring the file to
\* exactly max_disk_bytes rolls over too.
write_to_disk_at_cap(p) ==
  /\ spc = "write_to_disk"
  /\ back_lock = p
  /\ \E payload_len \in PayloadLens :
       LET bytes_written == back.bytes_written + payload_len + PAYLOAD_LEN_BYTES
       IN  /\ call' = [call EXCEPT !.payload_len = payload_len]
           /\ IF bytes_written >= cfg.max_disk_bytes \/ back.sender_fp = NoFp
                THEN /\ fs' = IF fs[back.path].exists
                                THEN [fs EXCEPT ![back.path].readonly = TRUE]
                                ELSE fs
                     /\ back' = [back EXCEPT !.sender_seq_num = @ + 1,
                                             !.path = back.sender_seq_num + 1]
                     /\ spc' = "open"
                ELSE /\ UNCHANGED <<fs, back>>
                     /\ spc' = "write"
  /\ UNCHANGED <<cfg, data, size, wbuf, back_lock, front_lock, front_offset,
                 disk_files_capacity, rcv, hist>>

\* Lines 104-125: serialize, decide on a rollover; a rollover marks the
\* current path read-only (when it exists) and moves sender_seq_num and path.
write_to_disk(p) ==
  /\ spc = "write_to_disk"
  /\ back_lock = p
  /\ \E payload_len \in PayloadLens :
       LET bytes_written == back.bytes_written + payload_len + PAYLOAD_LEN_BYTES
       IN  /\ call' = [call EXCEPT !.payload_len = payload_len]
           /\ IF bytes_written > cfg.max_disk_bytes \/ back.sender_fp = NoFp
                THEN /\ fs' = IF fs[back.path].exists
                                THEN [fs EXCEPT ![back.path].readonly = TRUE]
                                ELSE fs
                     /\ back' = [back EXCEPT !.sender_seq_num = @ + 1,
                                             !.path = back.sender_seq_num + 1]
                     /\ spc' = "open"
                ELSE /\ UNCHANGED <<fs, back>>
                     /\ spc' = "write"
  /\ UNCHANGED <<cfg, data, size, wbuf, back_lock, front_lock, front_offset,
                 disk_files_capacity, rcv, hist>>

\* Faulty variant of write_to_disk_open: the disk write is counted before
\* the budget is looked at, so a send that fails with Full leaves
\* total_disk_writes incremented.
write_to_disk_open_counted(p) ==
  /\ spc = "open"
  /\ back_lock = p
  /\ IF disk_files_capacity = 0
       THEN /\ Return(p, "Full")
            /\ back' = [back EXCEPT !.total_disk_writes = @ + 1]
            /\ UNCHANGED fs
       ELSE /\ fs' = [fs EXCEPT ![back.path].exists = TRUE]
            /\ spc' = "install"
            /\ UNCHANGED <<back, back_lock, call, hist>>
  /\ UNCHANGED <<cfg, data, size, wbuf, front_lock, front_offset,
                 disk_files_capacity, rcv>>

\* Faulty variant of write_to_disk_open: the last file of the budget is
\* kept in reserve, Full is returned while the counter still reads 1.
write_to_disk_open_reserve(p) ==
  /\ spc = "open"
  /\ back_lock = p
  /\ IF disk_files_capacity <= 1
       THEN /\ Return(p, "Full")
            /\ UNCHANGED fs
       ELSE /\ fs' = [fs EXCEPT ![back.path].exists = TRUE]
            /\ spc' = "install"
            /\ UNCHANGED <<back_lock, call, hist>>
  /\ UNCHANGED <<cfg, data, size, back, wbuf, front_lock, front_offset,
                 disk_files_capacity, rcv>>

\* Lines 126-134: Full when the counter reads 0, else the new file is
\* created.
write_to_disk_open(p) ==
  /\ spc = "open"
  /\ back_lock = p
  /\ IF disk_files_capacity = 0
       THEN /\ Return(p, "Full")
            /\ UNCHANGED fs
       ELSE /\ fs' = [fs EXCEPT ![back.path].exists = TRUE]
            /\ spc' = "install"
            /\ UNCHANGED <<back_lock, call, hist>>
  /\ UNCHANGED <<cfg, data, size, back, wbuf, front_lock, front_offset,
                 disk_files_capacity, rcv>>

\* Lines 135-139: the counter is decremented and the new BufWriter
\* installed; the BufWriter it replaces is dropped, which flushes it.
write_to_disk_install(p) ==
  /\ spc = "install"
  /\ back_lock = p
  /\ disk_files_capacity' = disk_files_capacity - 1
  /\ fs' = IF back.sender_fp = NoFp THEN fs
           ELSE [fs EXCEPT ![back.sender_fp] = FlushTo(@, wbuf)]
  /\ wbuf' = EmptyBuf
  /\ back' = [back EXCEPT !.sender_fp = back.path, !.bytes_written = 0]
  /\ spc' = "write"
  /\ UNCHANGED <<cfg, data, size, back_lock, front_lock, front_offset, call,
                 rcv, hist>>

\* Lines 147-155, write_u32(payload_len): four bytes that do not fit make
\* the BufWriter flush first; then they are buffered.
write_to_disk_write(p) ==
  /\ spc = "write"
  /\ back_lock = p
  /\ IF wbuf.bytes + PAYLOAD_LEN_BYTES > BufWriterCapacity
       THEN /\ fs' = [fs EXCEPT ![back.sender_fp] = FlushTo(@, wbuf)]
            /\ wbuf' = [EmptyBuf EXCEPT !.bytes = PAYLOAD_LEN_BYTES]
       ELSE /\ wbuf' = [wbuf EXCEPT !.bytes = @ + PAYLOAD_LEN_BYTES]
            /\ UNCHANGED fs
  /\ spc' = "write_payload"
  /\ UNCHANGED <<cfg, data, size, back, back_lock, front_lock, front_offset,
                 disk_files_capacity, call, rcv, hist>>

\* Faulty variant of write_to_disk_ok: the disk write of a memory-mode send
\* is not counted, so the sender stays in memory mode.
write_to_disk_ok_stays_in_memory(p) ==
  /\ back' = [back EXCEPT
       !.bytes_written = @ + PAYLOAD_LEN_BYTES + call.payload_len,
       !.total_disk_writes = IF call.ctx = "mem" THEN @ ELSE @ + 1]
  /\ IF call.ctx = "mem"
       THEN Return(p, "Ok")
       ELSE spc' = "flush_fp" /\ UNCHANGED <<back_lock, call, hist>>

\* Line 166 and the Ok of write_to_disk: bytes_written grows and, back in
\* send, total_disk_writes is incremented.  A memory-mode send returns here,
\* a disk-mode send goes on to flush.
write_to_disk_ok(p) ==
  /\ back' = [back EXCEPT
       !.bytes_written = @ + PAYLOAD_LEN_BYTES + call.payload_len,
       !.total_disk_writes = @ + 1]
  /\ IF call.ctx = "mem"
       THEN Return(p, "Ok")
       ELSE spc' = "flush_fp" /\ UNCHANGED <<back_lock, call, hist>>

\* Lines 156-164, write(&buf[..]): a payload that does not fit makes the
\* BufWriter flush what it holds, the length just buffered included; a
\* payload shorter than the capacity is then buffered, a longer one is
\* written to the file next.
write_to_disk_payload(p) ==
  /\ spc = "write_payload"
  /\ back_lock = p
  /\ IF wbuf.bytes + call.payload_len > BufWriterCapacity
       THEN /\ fs' = [fs EXCEPT ![back.sender_fp] = FlushHeader(@, wbuf)]
            /\ IF call.payload_len >= BufWriterCapacity
                 THEN /\ wbuf' = EmptyBuf
                      /\ spc' = "write_through"
                      /\ UNCHANGED <<back, back_lock, call, hist>>
                 ELSE /\ wbuf' = [recs |-> <<call.event>>,
                                  bytes |-> call.payload_len, tail |-> TRUE]
                      /\ write_to_disk_ok(p)
       ELSE /\ wbuf' = [wbuf EXCEPT !.recs = Append(@, call.event),
                                    !.bytes = @ + call.payload_len]
            /\ UNCHANGED fs
            /\ write_to_disk_ok(p)
  /\ UNCHANGED <<cfg, data, size, front_lock, front_offset,
                 disk_files_capacity, rcv>>

\* Lines 156-167 for a payload of at least the capacity: it goes straight
\* to the file, behind its length.
write_to_disk_through(p) ==
  /\ spc = "write_through"
  /\ back_lock = p
  /\ fs' = [fs EXCEPT ![back.sender_fp] =
              [@ EXCEPT !.recs = Append(@, call.event),
                        !.bytes = @ + call.payload_len,
                        !.part = 0]]
  /\ write_to_disk_ok(p)
  /\ UNCHANGED <<cfg, data, size, wbuf, front_lock, front_offset,
                 disk_files_capacity, rcv>>

\* Lines 270-275 of send: fp.flush() before the marker is pushed.
send_flush(p) ==
  /\ spc = "flush_fp"
  /\ back_lock = p
  /\ fs' = [fs EXCEPT ![back.sender_fp] = FlushTo(@, wbuf)]
  /\ wbuf' = EmptyBuf
  /\ spc' = "push_back"
  /\ UNCHANGED <<cfg, data, size, back, back_lock, front_lock, front_offset,
                 disk_files_capacity, call, rcv, hist>>

\* Faulty variant of flush: total_disk_writes is not looked at, a marker is
\* pushed by every flush.
flush_always_pushes(p) ==
  /\ spc = "idle"
  /\ back_lock = 0
  /\ p <= cfg.senders
  /\ back_lock' = p
  /\ call' = [NoCall EXCEPT !.op = "flush", !.ctx = "flush",
                            !.tdw0 = back.total_disk_writes]
  /\ fs' = [fs EXCEPT ![back.sender_fp] = FlushTo(@, wbuf)]
  /\ wbuf' = EmptyBuf
  /\ spc' = "push_back"
  /\ UNCHANGED hist
  /\ UNCHANGED <<cfg, data, size, back, front_lock, front_offset,
                 disk_files_capacity, rcv>>

(***************************************************************************)
(* Sender::flush, from lock_back() to the push of the marker.              *)
(***************************************************************************)
flush(p) ==
  /\ spc = "idle"
  /\ back_lock = 0
  /\ p <= cfg.senders
  /\ IF back.total_disk_writes = 0
       THEN /\ hist' = [hist EXCEPT !.result =
                          [p |-> p, op |-> "flush", kind |-> "Ok", val |-> NoVal]]
            /\ UNCHANGED <<back_lock, spc, call, fs, wbuf>>
       ELSE /\ back_lock' = p
            /\ call' = [NoCall EXCEPT !.op = "flush", !.ctx = "flush",
                                      !.tdw0 = back.total_disk_writes]
            /\ fs' = [fs EXCEPT ![back.sender_fp] = FlushTo(@, wbuf)]
            /\ wbuf' = EmptyBuf
            /\ spc' = "push_back"
            /\ UNCHANGED hist
  /\ UNCHANGED <<cfg, data, size, back, front_lock, front_offset,
                 disk_files_capacity, rcv>>

(***************************************************************************)
(* InnerQueue::pop_front.                                                  *)
(***************************************************************************)
\* Faulty variant of pop_front_lock: the consumer enters only while no
\* sender is inside a call.
pop_front_lock_after_back ==
  /\ rcv.pc = "lock"
  /\ front_lock = 0
  /\ back_lock = 0
  /\ front_lock' = RCV
  /\ rcv' = [rcv EXCEPT !.pc = "check"]
  /\ UNCHANGED <<cfg, data, size, back, wbuf, back_lock, front_offset, fs,
                 disk_files_capacity, spc, call, hist>>

pop_front_lock ==
  /\ rcv.pc = "lock"
  /\ front_lock = 0
  /\ front_lock' = RCV
  /\ rcv' = [rcv EXCEPT !.pc = "check"]
  /\ UNCHANGED <<cfg, data, size, back, wbuf, back_lock, front_offset, fs,
                 disk_files_capacity, spc, call, hist>>

\* Faulty variant of pop_front_check: size is not looked at.
pop_front_no_wait ==
  /\ rcv.pc = "check"
  /\ front_lock = RCV
  /\ rcv' = [rcv EXCEPT !.pc = "take"]
  /\ UNCHANGED <<cfg, data, size, back, wbuf, back_lock, front_lock,
                 front_offset, fs, disk_files_capacity, spc, call, hist>>

\* Faulty variant of pop_front_check: the waiter keeps the front lock.
pop_front_wait_locked ==
  /\ rcv.pc = "check"
  /\ front_lock = RCV
  /\ rcv' = [rcv EXCEPT !.pc = IF size = 0 THEN "wait" ELSE "take"]
  /\ UNCHANGED <<cfg, data, size, back, wbuf, back_lock, front_lock,
                 front_offset, fs, disk_files_capacity, spc, call, hist>>

\* while size == 0 { not_empty.wait(guard) }: the wait gives the lock up.
pop_front_check ==
  /\ rcv.pc = "check"
  /\ front_lock = RCV
  /\ IF size = 0
       THEN rcv' = [rcv EXCEPT !.pc = "wait"] /\ front_lock' = 0
       ELSE rcv' = [rcv EXCEPT !.pc = "take"] /\ UNCHANGED front_lock
  /\ UNCHANGED <<cfg, data, size, back, wbuf, back_lock, front_offset, fs,
                 disk_files_capacity, spc, call, hist>>

\* A condition variable may wake its waiter without a notify.
pop_front_spurious_wake ==
  /\ rcv.pc = "wait"
  /\ rcv' = [rcv EXCEPT !.pc = "woken"]
  /\ UNCHANGED <<cfg, data, size, back, wbuf, back_lock, front_lock,
                 front_offset, fs, disk_files_capacity, spc, call, hist>>

\* The woken waiter takes the front lock again and re-checks size.
pop_front_wake ==
  /\ rcv.pc = "woken"
  /\ front_lock = 0
  /\ front_lock' = RCV
  /\ rcv' = [rcv EXCEPT !.pc = "check"]
  /\ UNCHANGED <<cfg, data, size, back, wbuf, back_lock, front_offset, fs,
                 disk_files_capacity, spc, call, hist>>

\* Lines 138-141: the slot under the front offset is taken and nulled.
pop_front_take ==
  /\ rcv.pc = "take"
  /\ front_lock = RCV
  /\ rcv' = [rcv EXCEPT !.pc = "dec", !.elem = data[front_offset]]
  /\ data' = [data EXCEPT ![front_offset] = NullPtr]
  /\ front_offset' = (front_offset + 1) % cfg.capacity
  /\ UNCHANGED <<cfg, size, back, wbuf, back_lock, front_lock, fs,
                 disk_files_capacity, spc, call, hist>>

\* Faulty variant of pop_front_dec: the n of a Disk(n) marker is dropped, the
\* consumer turns to the disk with nothing owed.
pop_front_dec_drops_count ==
  /\ rcv.pc = "dec"
  /\ front_lock = RCV
  /\ size' = size - 1
  /\ front_lock' = 0
  /\ rcv' = [rcv EXCEPT
       !.elem = NullPtr,
       !.pc = IF rcv.elem.tag = "Memory" THEN "idle"
              ELSE IF rcv.elem.tag = "Disk" THEN "read" ELSE "dead",
       !.last = IF rcv.elem.tag = "Memory" THEN "Some" ELSE @]
  /\ hist' = IF rcv.elem.tag = "Memory"
               THEN [hist EXCEPT !.received = Append(@, rcv.elem.v)]
               ELSE hist
  /\ UNCHANGED <<cfg, data, back, wbuf, back_lock, front_offset, fs,
                 disk_files_capacity, spc, call>>

\* Lines 142-144: size.fetch_sub, the front guard is dropped and the element
\* returned; next_value yields a Memory payload and turns a Disk(n) marker
\* into n owed disk reads.  A null slot has no element to return.
pop_front_dec ==
  /\ rcv.pc = "dec"
  /\ front_lock = RCV
  /\ size' = size - 1
  /\ front_lock' = 0
  /\ rcv' = [rcv EXCEPT
       !.elem = NullPtr,
       !.pc = IF rcv.elem.tag = "Memory" THEN "idle"
              ELSE IF rcv.elem.tag = "Disk" THEN "read" ELSE "dead",
       !.disk_writes_to_read = IF rcv.elem.tag = "Disk" THEN rcv.elem.n ELSE @,
       !.last = IF rcv.elem.tag = "Memory" THEN "Some" ELSE @]
  /\ hist' = IF rcv.elem.tag = "Memory"
               THEN [hist EXCEPT !.received = Append(@, rcv.elem.v)]
               ELSE hist
  /\ UNCHANGED <<cfg, data, back, wbuf, back_lock, front_offset, fs,
                 disk_files_capacity, spc, call>>

(***************************************************************************)
(* Receiver::next_value: with nothing owed from disk it pops the deque,    *)
(* otherwise it reads the next record.                                     *)
(***************************************************************************)
next_value ==
  /\ rcv.pc = "idle"
  /\ rcv' = [rcv EXCEPT !.pc = IF rcv.disk_writes_to_read = 0 THEN "lock"
                                                              ELSE "read"]
  /\ UNCHANGED <<cfg, data, size, back, wbuf, back_lock, front_lock,
                 front_offset, fs, disk_files_capacity, spc, call, hist>>

(***************************************************************************)
(* Receiver::read_disk_value: the next record of the open read file, or    *)
(* end-of-file.                                                            *)
(***************************************************************************)
read_disk_value ==
  /\ rcv.pc = "read"
  /\ IF rcv.pos < Len(fs[rcv.fp].recs)
       THEN /\ rcv' = [rcv EXCEPT !.pos = @ + 1,
                                  !.disk_writes_to_read = @ - 1,
                                  !.pc = "idle",
                                  !.last = "Some"]
            /\ hist' = [hist EXCEPT
                 !.received = Append(@, fs[rcv.fp].recs[rcv.pos + 1])]
       ELSE /\ rcv' = [rcv EXCEPT !.pc = "metadata"]
            /\ UNCHANGED hist
  /\ UNCHANGED <<cfg, data, size, back, wbuf, back_lock, front_lock,
                 front_offset, fs, disk_files_capacity, spc, call>>

\* On end-of-file: a file that is not read-only is read again, a sealed one
\* is rolled over.
read_metadata ==
  /\ rcv.pc = "metadata"
  /\ rcv' = [rcv EXCEPT !.pc = IF fs[rcv.fp].readonly THEN "remove" ELSE "read"]
  /\ UNCHANGED <<cfg, data, size, back, wbuf, back_lock, front_lock,
                 front_offset, fs, disk_files_capacity, spc, call, hist>>

\* Rollover 1-2: the smallest sequence number of root (read_seq_num_min
\* asserts that root holds a file) and the removal of that file.
rollover_remove ==
  /\ rcv.pc = "remove"
  /\ IF Existing(fs) = {}
       THEN rcv' = [rcv EXCEPT !.pc = "dead"] /\ UNCHANGED fs
       ELSE /\ rcv' = [rcv EXCEPT !.pc = "fetch_add",
                                  !.seq_num = read_seq_num_min(fs)]
            /\ fs' = [fs EXCEPT ![read_seq_num_min(fs)].exists = FALSE]
  /\ UNCHANGED <<cfg, data, size, back, wbuf, back_lock, front_lock,
                 front_offset, disk_files_capacity, spc, call, hist>>

\* Rollover 2: the remaining-files counter is incremented.
rollover_fetch_add ==
  /\ rcv.pc = "fetch_add"
  /\ disk_files_capacity' = disk_files_capacity + 1
  /\ rcv' = [rcv EXCEPT !.pc = "open"]
  /\ UNCHANGED <<cfg, data, size, back, wbuf, back_lock, front_lock,
                 front_offset, fs, spc, call, hist>>

\* Rollover 3-4: the file at min + 1 is opened and read from its start; a
\* failed open ends the call with None.
rollover_open ==
  /\ rcv.pc = "open"
  /\ IF rcv.seq_num + 1 \in FileIds /\ fs[rcv.seq_num + 1].exists
       THEN rcv' = [rcv EXCEPT !.pc = "read", !.fp = rcv.seq_num + 1, !.pos = 0]
       ELSE rcv' = [rcv EXCEPT !.pc = "idle", !.last = "None"]
  /\ UNCHANGED <<cfg, data, size, back, wbuf, back_lock, front_lock,
                 front_offset, fs, disk_files_capacity, spc, call, hist>>

(***************************************************************************)
(* The system.                                                             *)
(***************************************************************************)
SenderStep(p) ==
  \/ send(p)
  \/ flush(p)
  \/ push_back(p)
  \/ push_back_fetch_add(p)
  \/ lock_front(p)
  \/ notify_not_empty(p)
  \/ write_to_disk(p)
  \/ write_to_disk_open(p)
  \/ write_to_disk_install(p)
  \/ write_to_disk_write(p)
  \/ write_to_disk_payload(p)
  \/ write_to_disk_through(p)
  \/ send_flush(p)

ReceiverStep ==
  \/ next_value
  \/ pop_front_lock
  \/ pop_front_check
  \/ pop_front_spurious_wake
  \/ pop_front_wake
  \/ pop_front_take
  \/ pop_front_dec
  \/ read_disk_value
  \/ read_metadata
  \/ rollover_remove
  \/ rollover_fetch_add
  \/ rollover_open

Next == (\E p \in Senders : SenderStep(p)) \/ ReceiverStep

Spec == Init /\ [][Next]_vars

\* A single sender, with a longer run.
InitOne == InitWith(MemoryBytesArgs, DiskBytesArgs, DiskFilesArgs, 1, MaxCallsOne)
SpecOne == InitOne /\ [][Next]_vars


(***************************************************************************)
(* Scheduling.  A thread that can take a step inside a call eventually     *)
(* takes it; nothing obliges a producer to start another send or flush,    *)
(* and nothing obliges the condition variable to wake spuriously.          *)
(***************************************************************************)
SenderProgress(p) ==
  \/ push_back(p)
  \/ push_back_fetch_add(p)
  \/ lock_front(p)
  \/ notify_not_empty(p)
  \/ write_to_disk(p)
  \/ write_to_disk_open(p)
  \/ write_to_disk_install(p)
  \/ write_to_disk_write(p)
  \/ write_to_disk_payload(p)
  \/ write_to_disk_through(p)
  \/ send_flush(p)

ReceiverProgress ==
  \/ next_value
  \/ pop_front_lock
  \/ pop_front_check
  \/ pop_front_wake
  \/ pop_front_take
  \/ pop_front_dec
  \/ read_disk_value
  \/ read_metadata
  \/ rollover_remove
  \/ rollover_fetch_add
  \/ rollover_open

Fairness ==
  /\ WF_vars(ReceiverProgress)
  /\ \A p \in Senders : WF_vars(SenderProgress(p))

MaxCallsFair == 3        \* send calls in a fair run

InitFair == InitWith(MemoryBytesArgs, DiskBytesArgs, DiskFilesArgs,
                     NumSenders, MaxCallsFair)
FairSpec == InitFair /\ [][Next]_vars /\ Fairness

(***************************************************************************)
(* The abstract FIFO queue a state stands for: what the consumer would     *)
(* yield from here on if it followed the placements it holds and the       *)
(* records that are still on disk, in order.                               *)
(***************************************************************************)
Range(sq) == {sq[i] : i \in DOMAIN sq}
IsPrefix(a, b) == Len(a) <= Len(b) /\ SubSeq(b, 1, Len(a)) = a
Take(sq, n) == SubSeq(sq, 1, IF n <= Len(sq) THEN n ELSE Len(sq))
Drop(sq, n) == SubSeq(sq, (IF n <= Len(sq) THEN n ELSE Len(sq)) + 1, Len(sq))
OfSender(sq, p) == SelectSeq(sq, LAMBDA v : v[1] = p)
NoDuplicate(sq) == Cardinality(Range(sq)) = Len(sq)

\* The records not read yet: the rest of the open read file, then the files
\* of root behind it by sequence number, each followed by what the BufWriter
\* still holds for it.
RECURSIVE FilesFrom(_)
FilesFrom(k) ==
  IF k \notin FileIds THEN <<>>
  ELSE (IF k = rcv.fp THEN Drop(fs[k].recs, rcv.pos)
        ELSE IF fs[k].exists THEN fs[k].recs ELSE <<>>)
       \o (IF k = back.sender_fp /\ (k = rcv.fp \/ fs[k].exists)
             THEN wbuf.recs ELSE <<>>)
       \o FilesFrom(k + 1)

Unread == FilesFrom(rcv.fp)

\* The placements not turned into values yet: the disk reads the consumer
\* owes, the element pop_front has taken, and the slots from the front.
Ring ==
  SelectSeq([i \in 1..cfg.capacity |->
               data[(front_offset + i - 1) % cfg.capacity]],
            LAMBDA e : e # NullPtr)

Held ==
  (IF rcv.disk_writes_to_read > 0
     THEN <<Disk(rcv.disk_writes_to_read)>> ELSE <<>>)
  \o (IF rcv.elem # NullPtr THEN <<rcv.elem>> ELSE <<>>)
  \o Ring

\* Memory(v) stands for v and Disk(n) for the next n records; the records
\* no marker covers yet come last.
RECURSIVE Expand(_, _)
Expand(elems, stream) ==
  IF elems = <<>> THEN stream
  ELSE IF Head(elems).tag = "Memory"
         THEN <<Head(elems).v>> \o Expand(Tail(elems), stream)
         ELSE Take(stream, Head(elems).n)
              \o Expand(Tail(elems), Drop(stream, Head(elems).n))

RECURSIVE Covered(_)
Covered(elems) ==
  IF elems = <<>> THEN 0
  ELSE (IF Head(elems).tag = "Memory" THEN 1 ELSE Head(elems).n)
       + Covered(Tail(elems))

\* The value of a send that holds the back lock and has not placed it yet.
Unplaced ==
  IF /\ call.op = "send"
     /\ \/ call.ctx = "mem" /\ spc \in {"push_back", "write_to_disk", "open",
                                        "install", "write", "write_payload",
                                        "write_through"}
        \/ call.ctx = "disk" /\ spc \in {"write_to_disk", "open", "install",
                                         "write", "write_payload",
                                         "write_through"}
    THEN <<call.event>> ELSE <<>>

AbstractQueue == Expand(Held, Unread) \o Unplaced

Flushed == spc = "idle" /\ back.total_disk_writes = 0

\* The consumer can go on: an owed record is in the open read file or that
\* file is sealed, a rollover finds the file it is about to remove and the
\* one it is about to open, and no call has ended with None.
ConsumerCanGoOn ==
  /\ rcv.pc # "dead"
  /\ rcv.last # "None"
  /\ (rcv.disk_writes_to_read > 0 /\ rcv.pc \in {"idle", "read", "metadata"})
       => (rcv.pos < Len(fs[rcv.fp].recs) \/ fs[rcv.fp].readonly)
  /\ rcv.pc = "remove"
       => (Existing(fs) # {} /\ read_seq_num_min(fs) = rcv.fp)
  /\ rcv.pc \in {"fetch_add", "open"}
       => (rcv.seq_num + 1 \in FileIds /\ fs[rcv.seq_num + 1].exists)

(***************************************************************************)
(* C1  Single-producer order preservation.  With one producer whose sends  *)
(* have all returned Ok, the values yielded so far followed by the values  *)
(* still queued are the values sent, each once and in send order; the      *)
(* consumer can always go on to its next yield; and once a flush has left  *)
(* no disk write pending, every queued value is covered by a placement, so *)
(* the consumer that has used up its placements has yielded exactly the    *)
(* values sent.                                                            *)
(***************************************************************************)
SingleProducerOrder ==
  hist.rejected = {} =>
    /\ hist.sent = hist.received \o AbstractQueue
    /\ NoDuplicate(hist.sent)
    /\ ConsumerCanGoOn
    /\ Flushed => Covered(Held) = Len(AbstractQueue)

\* Six sends, all Ok, through memory and through more than one queue file,
\* flushed and yielded in full.
SingleProducerOrderWitness ==
  /\ cfg.senders = 1
  /\ hist.rejected = {}
  /\ Len(hist.sent) = cfg.calls
  /\ Flushed
  /\ hist.received = hist.sent
  /\ rcv.fp > 0

(***************************************************************************)
(* C2  Multi-producer conservation.  Whatever the interleaving of the      *)
(* senders, no value is yielded twice, the values of each producer are     *)
(* yielded in that producer's send order, and the values yielded so far    *)
(* together with the values still queued are, each once, the values whose  *)
(* send was accepted: nothing is lost and nothing is made up.              *)
(***************************************************************************)
Conservation ==
  /\ NoDuplicate(hist.received \o AbstractQueue)
  /\ Range(hist.received \o AbstractQueue) = Range(hist.sent)
  /\ \A p \in Senders :
       IsPrefix(OfSender(hist.received, p), OfSender(hist.sent, p))

(***************************************************************************)
(* C3  Linearization by back-lock order.  The system refines one FIFO      *)
(* queue whose enqueue point is the acquisition of the back lock: the      *)
(* values yielded so far followed by the queue a state stands for are the  *)
(* accepted sends of all senders in the order they took the back lock.     *)
(***************************************************************************)
Linearization == hist.sent = hist.received \o AbstractQueue

(***************************************************************************)
(* C4  Recovery after disk-budget exhaustion.  In every run, those with    *)
(* sends that returned Full included, the values yielded are a prefix of   *)
(* the accepted sends in send order, no rejected value is yielded, the     *)
(* consumer stays alive, and every accepted value that has not been        *)
(* yielded is still queued where the consumer will come to it.             *)
(***************************************************************************)
RecoveryAfterFull ==
  /\ IsPrefix(hist.received, hist.sent)
  /\ Range(hist.received) \cap hist.rejected = {}
  /\ rcv.pc # "dead"
  /\ Range(hist.sent) \subseteq Range(hist.received) \cup Range(AbstractQueue)

(***************************************************************************)
(* C5  Full signals back.  The step in which a send returns Full hands     *)
(* back the event it was called with, leaves total_disk_writes at its      *)
(* value on entry and has put the event in no queue file, no write buffer  *)
(* and no placement; and an event that was handed back never shows up in   *)
(* a file, in the deque or among the values yielded.                       *)
(***************************************************************************)
Stored(v) ==
  \/ \E k \in FileIds : v \in Range(fs[k].recs)
  \/ v \in Range(wbuf.recs)
  \/ \E i \in DOMAIN data : data[i] = Memory(v)
  \/ rcv.elem = Memory(v)
  \/ v \in Range(hist.received)

ReturnsFull == spc # "idle" /\ spc' = "idle" /\ hist'.result.kind = "Full"

FullSignalsBack ==
  /\ [](\A v \in hist.rejected : ~Stored(v))
  /\ [][ReturnsFull =>
          /\ call.op = "send"
          /\ hist'.result.val = call.event
          /\ call.event \in hist'.rejected
          /\ call.event \notin Range(hist'.sent)
          /\ ~Stored(call.event)'
          /\ data' = data
          /\ size' = size
          /\ back'.total_disk_writes = call.tdw0]_vars

\* A send has just returned Full in disk mode, with disk writes pending.
FullSignalsBackWitness ==
  /\ spc = "idle"
  /\ hist.result.kind = "Full"
  /\ hist.result.val \in hist.rejected
  /\ back.total_disk_writes > 0

(***************************************************************************)
(* C6  Bounded memory.  The deque never holds more Memory placements than  *)
(* max(1, max_memory_bytes / sizeof(T)); a memory-mode send that finds     *)
(* every slot filled leaves the deque as it is and goes on to the disk     *)
(* write, and the write puts its value in the write buffer or the file.    *)
(***************************************************************************)
Writing == {"write", "write_payload", "write_through"}

MemoryResident == Cardinality({i \in DOMAIN data : data[i].tag = "Memory"})

AllFilled == \A i \in DOMAIN data : data[i] # NullPtr

BoundedMemory ==
  /\ [](MemoryResident <= Max(1, cfg.max_memory_bytes \div SizeOfT))
  /\ [][(spc = "push_back" /\ spc' # "push_back" /\ call.ctx = "mem" /\ AllFilled)
          => (data' = data /\ size' = size /\ spc' = "write_to_disk")]_vars
  /\ [][(spc \in Writing /\ spc' \notin Writing)
          => call.event \in Range(wbuf'.recs)
                            \cup Range(fs'[back'.sender_fp].recs)]_vars

\* Two slots, both holding Memory placements, and a send on its way to disk.
BoundedMemoryWitness ==
  /\ cfg.capacity = 2
  /\ MemoryResident = 2
  /\ call.ctx = "mem"
  /\ spc = "write"

(***************************************************************************)
(* C7  Bounded disk (file count).  The number of queue files in root never *)
(* exceeds the max_disk_files the channel was created with, the file that  *)
(* construction opens included.  Stated for a budget of at least one file: *)
(* with a budget of 0 the file that construction opens is already one too  *)
(* many.                                                                   *)
(***************************************************************************)
BoundedFileCount ==
  cfg.max_disk_files >= 1 => Cardinality(Existing(fs)) <= cfg.max_disk_files

(***************************************************************************)
(* C8  Bounded disk (file size).  No queue file holds more than            *)
(* max_disk_bytes plus one record: a file larger than max_disk_bytes holds *)
(* a single record.  bytes_written is the number of bytes written to the   *)
(* open write file, those its BufWriter still holds included (it is        *)
(* brought up to date when a record's write is complete).                  *)
(***************************************************************************)
MaxPayloadLen == SetMax(PayloadLens)

BoundedFileSize ==
  /\ \A k \in FileIds :
       /\ fs[k].bytes <= cfg.max_disk_bytes + PAYLOAD_LEN_BYTES + MaxPayloadLen
       /\ fs[k].bytes > cfg.max_disk_bytes => Len(fs[k].recs) = 1
  /\ (back.sender_fp # NoFp /\ spc \notin {"write_payload", "write_through"})
       => back.bytes_written = fs[back.sender_fp].bytes + wbuf.bytes

\* A file past max_disk_bytes by one record, while a later file is written.
BoundedFileSizeWitness ==
  /\ \E k \in FileIds : fs[k].bytes > cfg.max_disk_bytes /\ k < back.sender_fp
  /\ back.bytes_written > 0
  /\ wbuf.bytes > 0

WakeUp ==
  /\ []((rcv.pc = "wait" /\ size > 0) => spc \in {"lock_front", "notify"})
  /\ (rcv.pc = "wait" /\ size > 0) ~> (rcv.pc = "dec" /\ rcv.elem # NullPtr)

\* The consumer waits, a push has made size 1 and its notify is due.
WakeUpWitness ==
  /\ rcv.pc = "wait"
  /\ size = 1
  /\ spc = "notify"

(***************************************************************************)
(* C11  Deadlock freedom.  The consumer never holds the back lock; a       *)
(* producer holds the front lock only while it holds the back lock, and    *)
(* only for notify_not_empty, never during push_back; and whoever holds a  *)
(* lock can take its next step, or waits for the front lock while the      *)
(* consumer holds it and can take its next step.  So in no state is every  *)
(* thread blocked on back_lock or front_lock.                              *)
(***************************************************************************)
DeadlockFreedom ==
  /\ back_lock \in Senders \cup {0}
  /\ front_lock \in Senders \cup {0, RCV}
  /\ front_lock \in Senders => (back_lock = front_lock /\ spc = "notify")
  /\ spc \in {"push_back", "fetch_add"} => front_lock \notin Senders
  /\ back_lock = 0 <=> spc = "idle"
  /\ front_lock = RCV => (rcv.pc \in {"check", "take", "dec"}
                            /\ ENABLED ReceiverProgress)
  /\ rcv.pc \in {"lock", "woken"}
       => (front_lock = 0 \/ ENABLED SenderProgress(front_lock))
  /\ back_lock # 0
       => \/ ENABLED SenderProgress(back_lock)
          \/ spc = "lock_front" /\ front_lock = RCV

\* A producer that holds the back lock waits for the front lock while the
\* consumer holds it.
DeadlockFreedomWitness ==
  /\ spc = "lock_front"
  /\ back_lock \in Senders
  /\ front_lock = RCV

(***************************************************************************)
(* C12  Flush while full.  A flush with total_disk_writes = n > 0 that     *)
(* finds every slot filled returns NoFlush, pushes nothing and leaves      *)
(* total_disk_writes at n.  As soon as one slot is empty the slot under    *)
(* the back offset is empty, so a flush tried again after the consumer has *)
(* removed a placement pushes exactly one Disk(n), sets total_disk_writes  *)
(* to 0 and returns Ok.                                                    *)
(***************************************************************************)
FlushPushes == call.ctx = "flush" /\ spc = "push_back" /\ spc' # "push_back"

FlushWhileFull ==
  /\ [](~AllFilled => data[back.offset] = NullPtr)
  /\ [](call.ctx = "flush" => (call.tdw0 > 0 /\ wbuf = EmptyBuf))
  /\ [][(FlushPushes /\ AllFilled)
          => /\ spc' = "idle"
             /\ hist'.result = [p |-> back_lock, op |-> "flush",
                                kind |-> "NoFlush", val |-> NoVal]
             /\ data' = data
             /\ size' = size
             /\ back' = back
             /\ back.total_disk_writes = call.tdw0]_vars
  /\ [][(FlushPushes /\ ~AllFilled)
          => /\ spc' = "fetch_add"
             /\ data' = [data EXCEPT ![back.offset] = Disk(call.tdw0)]
             /\ back'.total_disk_writes = call.tdw0]_vars
  /\ [][(call.ctx = "flush" /\ spc = "fetch_add" /\ spc' # "fetch_add")
          => /\ back'.total_disk_writes = 0
             /\ size' = size + 1
             /\ data' = data
             /\ spc' \in {"idle", "lock_front"}]_vars
  /\ [][(call.ctx = "flush" /\ spc # "push_back" /\ spc' = "idle")
          => (hist'.result.kind = "Ok" /\ data' = data
              /\ back'.total_disk_writes = 0)]_vars

\* A flush has returned NoFlush, the consumer has taken a placement since,
\* and the flush tried again has pushed its marker.
FlushWhileFullWitness ==
  /\ hist.result.op = "flush"
  /\ hist.result.kind = "NoFlush"
  /\ call.ctx = "flush"
  /\ spc = "fetch_add"
  /\ call.tdw0 = 2

(***************************************************************************)
(* C13  Rollover ordering.  Whenever bytes reach a queue file, every file  *)
(* of root with a smaller sequence number is read-only, and so is every    *)
(* file that has a successor in root.  A record is in one file only: a     *)
(* record that is in a file in part is in the file that is being written,  *)
(* and the rest of it is in that file's BufWriter or is being written      *)
(* through.  Every value the consumer yields is a record that is whole in  *)
(* the file it reads, and was sent.                                        *)
(***************************************************************************)
RolloverOrdering ==
  /\ [](\A j \in FileIds, k \in FileIds :
         (j < k /\ fs[j].exists /\ fs[k].exists) => fs[j].readonly)
  /\ [][\A k \in FileIds : fs'[k].bytes > fs[k].bytes
           => \A j \in FileIds : (j < k /\ fs[j].exists) => fs[j].readonly]_vars
  /\ [](\A k \in FileIds : fs[k].part > 0
           => (k = back.sender_fp /\ (spc = "write_through" \/ wbuf.tail)))
  /\ [](wbuf.tail => fs[back.sender_fp].part = PAYLOAD_LEN_BYTES)
  /\ [](\A j \in FileIds, k \in FileIds :
         j # k => Range(fs[j].recs) \cap Range(fs[k].recs) = {})
  /\ [][(rcv.pc = "read" /\ hist'.received # hist.received)
          => /\ rcv.pos < Len(fs[rcv.fp].recs)
             /\ hist'.received = Append(hist.received, fs[rcv.fp].recs[rcv.pos + 1])
             /\ fs[rcv.fp].recs[rcv.pos + 1] \in Range(hist.sent)]_vars

\* The consumer reads a sealed file while its successor holds the length of
\* a record whose payload has not reached it yet.
RolloverOrderingWitness ==
  \E k \in FileIds :
    /\ k > 0
    /\ fs[k - 1].exists
    /\ fs[k - 1].readonly
    /\ fs[k].part > 0
    /\ rcv.fp = k - 1
    /\ rcv.pc = "read"

(***************************************************************************)
(* C14  Sealing is final.  No step adds a record or a byte to a queue file *)
(* that is read-only, whether the rollover that sealed it went on to       *)
(* install a successor or returned Full, and whether or not the BufWriter  *)
(* held a record when the file was sealed.                                 *)
(***************************************************************************)
SealingIsFinal ==
  [][\A k \in FileIds :
       (fs[k].exists /\ fs[k].readonly)
         => (fs'[k].recs = fs[k].recs /\ fs'[k].bytes = fs[k].bytes)]_vars

(***************************************************************************)
(* C15  No unread data is deleted.  Whenever the consumer removes a queue  *)
(* file, that file is the one it was reading, it has read every record of  *)
(* the file and yielded it, and no record of the file is still held by the *)
(* BufWriter.                                                              *)
(***************************************************************************)
NoUnreadDeleted ==
  [][\A k \in FileIds :
       (fs[k].exists /\ ~fs'[k].exists)
         => /\ k = rcv.fp
            /\ rcv.pos = Len(fs[k].recs)
            /\ Range(fs[k].recs) \subseteq Range(hist.received)
            /\ fs[k].part = 0
            /\ k = back.sender_fp => wbuf = EmptyBuf]_vars

(***************************************************************************)
(* C16  Cloned senders share one producer state.  The fields of SenderSync *)
(* and the BufWriter change only in steps of the sender that holds the     *)
(* back lock, and every clone reads the same copy.  The marker a flush or  *)
(* a disk-mode send pushes is Disk(total_disk_writes), and it covers every *)
(* record that was written to disk and that no earlier marker covers,      *)
(* whichever clone wrote it; all of them are in the files by then.         *)
(***************************************************************************)
DiskCovered(elems) == Covered(SelectSeq(elems, LAMBDA e : e.tag = "Disk"))

ReadFromDisk == Cardinality(Range(Written) \cap Range(hist.received))

MarkerPlaced ==
  spc = "push_back" /\ spc' = "fetch_add" /\ call.ctx \in {"disk", "flush"}

SharedProducerState ==
  /\ [](back.total_disk_writes <= Len(Written))
  /\ [][(back' # back \/ wbuf' # wbuf)
          => (back_lock \in Senders \/ back_lock' \in Senders)]_vars
  /\ [][MarkerPlaced
          => /\ data' = [data EXCEPT ![back.offset] = Disk(back.total_disk_writes)]
             /\ back.total_disk_writes >= 1
             /\ wbuf = EmptyBuf
             /\ back.total_disk_writes
                  = Len(Written) - ReadFromDisk - DiskCovered(Held)]_vars

\* One clone has pushed a marker that covers a record of each clone.
SharedProducerStateWitness ==
  /\ spc = "fetch_add"
  /\ call.ctx \in {"disk", "flush"}
  /\ data[(back.offset + cfg.capacity - 1) % cfg.capacity] = Disk(2)
  /\ back.total_disk_writes = 2
  /\ \E i \in DOMAIN Unpublished : Unpublished[i][1] = 1
  /\ \E i \in DOMAIN Unpublished : Unpublished[i][1] = 2

(***************************************************************************)
(* C17  push_back and size.  A push_back that runs with size = capacity    *)
(* fails with Full and changes neither the slots, nor size, nor the back   *)
(* offset; a push_back that runs with size < capacity fills the slot under *)
(* the back offset.  This is to hold whatever pop_front is doing, also     *)
(* between its emptying of a slot and its size.fetch_sub.                  *)
(***************************************************************************)
PushBackRuns == spc = "push_back" /\ spc' # "push_back"

PushBackFullBySize ==
  [][PushBackRuns
      => /\ size = cfg.capacity
              => (spc' # "fetch_add" /\ data' = data /\ size' = size
                  /\ back'.offset = back.offset)
         /\ size < cfg.capacity
              => (spc' = "fetch_add"
                  /\ data' = [data EXCEPT ![back.offset] = Placed]
                  /\ back'.offset = (back.offset + 1) % cfg.capacity)]_vars

(***************************************************************************)
(* C18  Size invariant.  In every reachable state, those in the middle of  *)
(* a push_back or a pop_front included, size is the number of filled       *)
(* slots, 0 <= size <= capacity, and the filled slots are the size         *)
(* consecutive ring positions from the front offset.                       *)
(***************************************************************************)
Filled == {i \in DOMAIN data : data[i] # NullPtr}

SizeInvariant ==
  /\ size = Cardinality(Filled)
  /\ 0 <= size
  /\ size <= cfg.capacity
  /\ \A i \in 0..(cfg.capacity - 1) :
       data[(front_offset + i) % cfg.capacity] # NullPtr <=> i < size

(***************************************************************************)
(* C19  Disk accounting, as claimed.  In every state outside a send or     *)
(* flush call, the number of records written to disk and not yet yielded   *)
(* by the consumer is the sum of n over the Disk(n) placements in the      *)
(* slots of the deque, plus total_disk_writes, plus the consumer's         *)
(* disk_writes_to_read.                                                    *)
(***************************************************************************)
NotReturned == Len(Written) - ReadFromDisk

DiskAccountingClaimed ==
  spc = "idle"
    => NotReturned = DiskCovered(Ring) + back.total_disk_writes
                       + rcv.disk_writes_to_read

(***************************************************************************)
(* C19  Disk accounting, amended.  The sum has a fourth term: the n of a   *)
(* Disk(n) that pop_front has taken out of its slot and has not yet        *)
(* returned to next_value.  The records written are those handed to the    *)
(* BufWriter, whether or not it has passed them on to the file.            *)
(***************************************************************************)
DiskAccounting ==
  spc = "idle"
    => NotReturned = DiskCovered(Ring) + back.total_disk_writes
                       + rcv.disk_writes_to_read
                       + (IF rcv.elem.tag = "Disk" THEN rcv.elem.n ELSE 0)

\* No call is running, pop_front is returning a marker, another marker is
\* in the deque and a disk write is waiting for its marker.
DiskAccountingWitness ==
  /\ spc = "idle"
  /\ rcv.pc = "dec"
  /\ rcv.elem.tag = "Disk"
  /\ DiskCovered(Ring) > 0
  /\ back.total_disk_writes > 0

(***************************************************************************)
(* C20  Marker soundness.  Every Disk(n) in the deque has n >= 1; the      *)
(* marker a send or a flush pushes counts exactly the records written to   *)
(* disk since the marker before it, and when it is pushed all of them are  *)
(* in the files, none in the BufWriter and none in part; so a consumer     *)
(* that has disk reads owed never meets end-of-file on a file that is not  *)
(* read-only while the BufWriter of that file holds bytes.                 *)
(***************************************************************************)
MarkerPushSound ==
  /\ [](\A i \in DOMAIN data : data[i].tag = "Disk" => data[i].n >= 1)
  /\ [](Len(wbuf.recs) <= back.total_disk_writes)
  /\ [][MarkerPlaced
          => LET n == data'[back.offset].n
             IN  /\ data'[back.offset] = Disk(n)
                 /\ n >= 1
                 /\ n = call.tdw0 + (IF call.op = "send" THEN 1 ELSE 0)
                 /\ n = NotReturned - DiskCovered(Held)
                 /\ n <= Len(RecordsFrom(0))
                 /\ wbuf = EmptyBuf
                 /\ \A k \in FileIds : fs[k].part = 0]_vars

EofForUnflushed ==
  /\ rcv.disk_writes_to_read > 0
  /\ rcv.pc = "metadata"
  /\ ~fs[rcv.fp].readonly
  /\ rcv.fp = back.sender_fp
  /\ wbuf.bytes > 0

MarkerSoundness == MarkerPushSound /\ [](~EofForUnflushed)

(***************************************************************************)
(* C21  File positions.  Outside a send or flush call, sender_seq_num is   *)
(* the sequence number of the file the write handle refers to, that file   *)
(* is in root and no file of root has a larger number; and outside its     *)
(* rollover the file the consumer has open is in root and no file of root  *)
(* has a smaller number.                                                   *)
(***************************************************************************)
WritePosition ==
  spc = "idle"
    => /\ back.sender_seq_num = back.sender_fp
       /\ fs[back.sender_fp].exists
       /\ back.sender_seq_num = read_seq_num(fs)

ReadPosition ==
  rcv.pc \notin {"fetch_add", "open"}
    => /\ fs[rcv.fp].exists
       /\ rcv.fp = read_seq_num_min(fs)

FilePosition == WritePosition /\ ReadPosition

(***************************************************************************)
(* C22  Marker immutability.  A Disk(n) that is in a slot stays in that     *)
(* slot with the same n through every step of every sender; the only step  *)
(* that changes the slot is pop_front taking it, under the front lock, from *)
(* the front offset, and the consumer then owes n disk reads.  A marker is  *)
(* pushed into a slot that was empty and changes no other slot, and once   *)
(* it is in, total_disk_writes counts from 0 again: the records written    *)
(* later are counted by a later marker.                                    *)
(***************************************************************************)
MarkerImmutable ==
  /\ [][\A i \in DOMAIN data :
         data[i].tag = "Disk"
           => \/ data'[i] = data[i]
              \/ /\ rcv.pc = "take"
                 /\ front_lock = RCV
                 /\ i = front_offset
                 /\ data'[i] = NullPtr
                 /\ rcv'.elem = data[i]]_vars
  /\ [][(rcv.elem.tag = "Disk" /\ rcv'.elem # rcv.elem)
          => rcv'.disk_writes_to_read = rcv.elem.n]_vars
  /\ [][MarkerPlaced
          => /\ data[back.offset] = NullPtr
             /\ \A i \in DOMAIN data : i # back.offset => data'[i] = data[i]]_vars
  /\ [][(call.ctx \in {"disk", "flush"} /\ spc = "fetch_add" /\ spc' # "fetch_add")
          => back'.total_disk_writes = 0]_vars

\* Two markers in the deque, the second pushed while the first was there
\* for the records written after the first went in.
MarkerImmutableWitness ==
  /\ cfg.capacity = 2
  /\ data[0].tag = "Disk"
  /\ data[1].tag = "Disk"
  /\ back.total_disk_writes = 0
  /\ spc = "idle"

(***************************************************************************)
(* C23  Mode discipline.  A send that starts with total_disk_writes > 0    *)
(* goes to write_to_disk and pushes no Memory placement; a Memory          *)
(* placement is pushed only with total_disk_writes = 0, and then every     *)
(* record on disk that has not been yielded is counted by a marker that is *)
(* in the deque or with the consumer, so ahead of it.  total_disk_writes   *)
(* grows by one per completed disk write and goes back to 0 only in the    *)
(* step that completes the push_back of Disk(total_disk_writes), in send   *)
(* or in flush.                                                            *)
(***************************************************************************)
MemoryPlaced ==
  spc = "push_back" /\ spc' = "fetch_add" /\ data'[back.offset].tag = "Memory"

ModeDiscipline ==
  /\ [][(spc = "idle" /\ call'.op = "send")
          => /\ back.total_disk_writes > 0 => (spc' = "write_to_disk" /\ call'.ctx = "disk")
             /\ back.total_disk_writes = 0 => (spc' = "push_back" /\ call'.ctx = "mem")]_vars
  /\ [](call.ctx = "disk" => (call.op = "send" /\ call.tdw0 > 0))
  /\ [](call.ctx = "mem" => (call.op = "send" /\ call.tdw0 = 0))
  /\ [][MemoryPlaced
          => /\ call.ctx = "mem"
             /\ data'[back.offset] = Memory(call.event)
             /\ back.total_disk_writes = 0
             /\ NotReturned = DiskCovered(Held)]_vars
  /\ [][(call.ctx = "disk" /\ spc = "push_back" /\ spc' # "push_back")
          => (\A i \in DOMAIN data : data'[i].tag = "Memory" => data'[i] = data[i])]_vars
  /\ [][back'.total_disk_writes # back.total_disk_writes
          => \/ /\ back'.total_disk_writes = back.total_disk_writes + 1
                /\ spc \in Writing /\ spc' \notin Writing
             \/ /\ back'.total_disk_writes = 0
                /\ spc = "fetch_add"
                /\ call.ctx \in {"disk", "flush"}
                /\ data[(back.offset + cfg.capacity - 1) % cfg.capacity]
                     = Disk(back.total_disk_writes)]_vars

\* A memory-mode send has put its value in a slot while a marker for earlier
\* disk writes is still in the deque.
ModeDisciplineWitness ==
  /\ spc = "fetch_add"
  /\ call.ctx = "mem"
  /\ DiskCovered(Ring) > 0
  /\ hist.received # <<>>

(***************************************************************************)
(* C24  Memory-mode overflow.  A send that entered with                    *)
(* total_disk_writes = 0 and found the slot under the back offset filled   *)
(* leaves the deque as it is and goes to write_to_disk; it takes no front  *)
(* lock and notifies nobody.  When its disk write has succeeded it returns *)
(* Ok, its value is on disk exactly once, total_disk_writes is 1 and the   *)
(* deque and size are as they were (a disk write that is refused for lack  *)
(* of file budget makes it return Full with nothing written).  A record    *)
(* that total_disk_writes still counts has not been yielded by the         *)
(* consumer: it is yielded only after a later send or flush has pushed the *)
(* marker.                                                                 *)
(***************************************************************************)
OnDisk == {"write_to_disk", "open", "install"} \cup Writing

Occurrences(sq, v) == Cardinality({i \in DOMAIN sq : sq[i] = v})

OverflowReturns == call.ctx = "mem" /\ spc \in OnDisk /\ spc' = "idle"

MemoryOverflow ==
  /\ [][(call.ctx = "mem" /\ PushBackRuns /\ data[back.offset] # NullPtr)
          => (spc' = "write_to_disk"
              /\ data' = data /\ size' = size /\ back' = back)]_vars
  /\ [][(call.ctx = "mem" /\ spc \in OnDisk)
          => (spc' \in OnDisk \cup {"idle"}
              /\ front_lock' \notin Senders
              /\ \A i \in DOMAIN data : data[i] = NullPtr => data'[i] = NullPtr)]_vars
  /\ [][OverflowReturns
          => /\ hist'.result.p = back_lock
             /\ hist'.result.op = "send"
             /\ hist'.result.val = call.event
             /\ data' = data
             /\ size' = size
             /\ \/ /\ hist'.result.kind = "Ok"
                   /\ back'.total_disk_writes = 1
                   /\ Occurrences(Written', call.event) = 1
                   /\ Unpublished' = <<call.event>>
                \/ /\ hist'.result.kind = "Full"
                   /\ back'.total_disk_writes = 0
                   /\ Occurrences(Written', call.event) = 0]_vars
  /\ [](Range(Unpublished) \cap Range(hist.received) = {})

(***************************************************************************)
(* C25  Disk-mode marker retry.  A disk-mode send reaches push_back with   *)
(* its record written and flushed and total_disk_writes one more than on   *)
(* entry.  If the slot under the back offset is filled, the send returns   *)
(* Ok, the deque, size and the back offset are as they were and            *)
(* total_disk_writes keeps the incremented value.  The marker that goes in *)
(* later, from a send or a flush, is one placement Disk(m) with m the      *)
(* number of records written since the marker before it: the sends that    *)
(* failed to push theirs included.                                         *)
(***************************************************************************)
MarkerRetry ==
  /\ []((call.ctx = "disk" /\ spc = "push_back")
          => (back.total_disk_writes = call.tdw0 + 1
              /\ wbuf = EmptyBuf
              /\ Occurrences(RecordsFrom(0), call.event) = 1))
  /\ [][(call.ctx = "disk" /\ PushBackRuns /\ data[back.offset] # NullPtr)
          => /\ spc' = "idle"
             /\ hist'.result = [p |-> back_lock, op |-> "send", kind |-> "Ok",
                                val |-> call.event]
             /\ data' = data
             /\ size' = size
             /\ back' = back]_vars
  /\ [][MarkerPlaced
          => /\ data' = [data EXCEPT ![back.offset] = Disk(back.total_disk_writes)]
             /\ Cardinality({i \in DOMAIN data : data'[i] # data[i]}) = 1
             /\ back.total_disk_writes = Len(Unpublished)
             /\ back.total_disk_writes = NotReturned - DiskCovered(Held)
             /\ Range(Unpublished) \subseteq Range(hist.sent)]_vars

\* Two disk-mode sends in a row have failed to push their marker, and a
\* flush has pushed one marker for the three records on disk.
MarkerRetryWitness ==
  /\ call.ctx = "flush"
  /\ spc = "fetch_add"
  /\ call.tdw0 = 3
  /\ data[(back.offset + cfg.capacity - 1) % cfg.capacity] = Disk(3)
  /\ hist.result.op = "send"
  /\ hist.result.kind = "Ok"

(***************************************************************************)
(* C26  Wake path.  The step of push_back that increments size sends its   *)
(* caller to the front lock exactly when size was 0, and lets it return    *)
(* otherwise.  A caller on the wake path takes the front lock when it is   *)
(* free, calls notify_not_empty while it holds it, which wakes a waiting   *)
(* consumer, and returns only then, giving the front lock up.  No thread   *)
(* is at notify_not_empty without the front lock.                          *)
(***************************************************************************)
WakePath ==
  /\ [][(spc = "fetch_add" /\ spc' # "fetch_add")
          => /\ size' = size + 1
             /\ size = 0 <=> spc' = "lock_front"
             /\ size # 0 <=> spc' = "idle"
             /\ front_lock' = front_lock]_vars
  /\ [][(spc = "lock_front" /\ spc' # "lock_front")
          => (spc' = "notify" /\ front_lock = 0 /\ front_lock' = back_lock)]_vars
  /\ [](spc = "notify"
          => (back_lock \in Senders /\ front_lock = back_lock))
  /\ [][(spc = "notify" /\ spc' # "notify")
          => /\ spc' = "idle"
             /\ hist'.result.kind = "Ok"
             /\ front_lock' = 0
             /\ rcv.pc = "wait" => rcv'.pc = "woken"]_vars
  /\ [][(rcv.pc = "wait" /\ rcv'.pc = "woken" /\ spc' # spc)
          => (spc = "notify" /\ front_lock = back_lock)]_vars

\* A flush has pushed its marker into an empty deque and holds the front
\* lock to notify the consumer, which waits.
WakePathWitness ==
  /\ spc = "notify"
  /\ call.ctx = "flush"
  /\ front_lock = back_lock
  /\ rcv.pc = "wait"
  /\ size = 1

(***************************************************************************)
(* C27  Lock order.  A sender that waits for the front lock, or holds it,  *)
(* has released the back lock: no thread holds back_lock and front_lock at *)
(* the same time.                                                          *)
(***************************************************************************)
BackReleasedBeforeFront ==
  /\ spc \in {"lock_front", "notify"} => back_lock = 0
  /\ \A p \in Senders : ~(back_lock = p /\ front_lock = p)

(***************************************************************************)
(* C28  Lock independence.  A push_back that increments a size that was    *)
(* not 0 lets its caller return at once: the call has not touched the      *)
(* front lock, and at every step of it but the wait for the front lock on  *)
(* the wake path the sender can go on whatever the consumer holds.  The    *)
(* consumer never holds the back lock and none of its steps changes it;    *)
(* while a sender is in write_to_disk or flushes, no sender holds the      *)
(* front lock, and a consumer that is in pop_front can go on.              *)
(***************************************************************************)
InPopFront == rcv.pc \in {"lock", "woken", "check", "take", "dec"}

LockIndependence ==
  /\ [](back_lock \in Senders \cup {0})
  /\ [][(rcv' # rcv /\ spc' = spc) => back_lock' = back_lock]_vars
  /\ [](spc \notin {"idle", "lock_front"} => ENABLED SenderProgress(back_lock))
  /\ [](spc \notin {"idle", "notify"} => front_lock \notin Senders)
  /\ [][(spc = "fetch_add" /\ spc' # "fetch_add" /\ size # 0)
          => (spc' = "idle" /\ hist'.result.kind = "Ok"
              /\ front_lock' = front_lock)]_vars
  /\ []((spc \in OnDisk \cup {"flush_fp"} /\ InPopFront)
          => (front_lock \in {0, RCV} /\ ENABLED ReceiverProgress))

\* The consumer takes a placement under the front lock while a sender,
\* holding the back lock, writes a payload to the file.
LockIndependenceWitness ==
  /\ spc = "write_through"
  /\ back_lock \in Senders
  /\ front_lock = RCV
  /\ rcv.pc = "take"

(***************************************************************************)
(* C29  Disk writes are serialized.  Every step that appends to a queue    *)
(* file, seals one or creates one is a step of the sender that holds the   *)
(* back lock, and while a sender is in write_to_disk it is the one sender  *)
(* inside a call.  A record whose length is in a file without its payload  *)
(* is the last thing in the file that is being written, and its payload is *)
(* what the BufWriter hands over next.  The records on disk, by sequence   *)
(* number and by position in their file, followed by those in the          *)
(* BufWriter, are in the order in which their sends took the back lock,    *)
(* each record once.                                                       *)
(***************************************************************************)
SenderChanges(f, g) ==
  \/ g.recs # f.recs
  \/ g.bytes # f.bytes
  \/ g.part # f.part
  \/ g.readonly # f.readonly
  \/ g.exists /\ ~f.exists

SerializedWrites ==
  /\ [][(\E k \in FileIds : SenderChanges(fs[k], fs'[k]))
          => /\ back_lock \in Senders \/ back_lock' \in Senders
             /\ back_lock \in Senders => back_lock' \in {back_lock, 0}
             /\ rcv' = rcv]_vars
  /\ [](spc \in OnDisk => (back_lock \in Senders /\ call.event[1] = back_lock))
  /\ [](\A k \in FileIds : fs[k].part > 0
           => /\ k = back.sender_fp
              /\ fs[k].part = PAYLOAD_LEN_BYTES
              /\ \/ spc = "write_through"
                 \/ wbuf.tail /\ wbuf.recs # <<>>)
  /\ [](Written = SelectSeq(hist.sent, LAMBDA v : v \in Range(Written)))
  /\ [](NoDuplicate(Written))

\* Records of both senders in file 0, in the order of their sends, and a
\* later record in file 1.
SerializedWritesWitness ==
  /\ Len(fs[0].recs) = 2
  /\ fs[0].recs[1][1] # fs[0].recs[2][1]
  /\ fs[1].recs # <<>>
  /\ spc = "idle"

(***************************************************************************)
(* C30  Rollover condition.  write_to_disk of a record with a payload of   *)
(* L bytes starts a rollover if and only if no write file is open or       *)
(* bytes_written + 4 + L > max_disk_bytes; otherwise it changes no file    *)
(* and no field of the back guard and goes on to write.  So a write that   *)
(* brings the file to exactly max_disk_bytes goes to the open file.  The   *)
(* rollover that installs a new file sets bytes_written to 0, and the      *)
(* record is written after that: when the write is done bytes_written is   *)
(* 4 + L.                                                                  *)
(***************************************************************************)
RolloverCondition ==
  /\ [][(spc = "write_to_disk" /\ spc' # "write_to_disk")
          => LET L == call'.payload_len
                 rolls == \/ back.sender_fp = NoFp
                          \/ back.bytes_written + PAYLOAD_LEN_BYTES + L
                               > cfg.max_disk_bytes
             IN  /\ L \in PayloadLens
                 /\ rolls <=> spc' = "open"
                 /\ ~rolls <=> spc' = "write"
                 /\ ~rolls => (fs' = fs /\ back' = back)
                 /\ rolls => (back'.sender_seq_num = back.sender_seq_num + 1
                              /\ back'.bytes_written = back.bytes_written)]_vars
  /\ [][(spc = "install" /\ spc' # "install")
          => /\ spc' = "write"
             /\ back'.bytes_written = 0
             /\ back'.sender_fp = back.path
             /\ fs'[back.path].bytes = 0
             /\ wbuf' = EmptyBuf]_vars
  /\ [][(spc \in Writing /\ spc' \notin Writing)
          => back'.bytes_written
               = back.bytes_written + PAYLOAD_LEN_BYTES + call.payload_len]_vars
  /\ [](spc = "write" => back.bytes_written + PAYLOAD_LEN_BYTES + call.payload_len
                           <= cfg.max_disk_bytes
                         \/ back.bytes_written = 0)

\* A record has filled the open write file to exactly max_disk_bytes
\* without a rollover: the file is file 0, still writable.
RolloverConditionWitness ==
  /\ spc = "idle"
  /\ back.bytes_written = cfg.max_disk_bytes
  /\ back.sender_fp = 0
  /\ back.sender_seq_num = 0
  /\ ~fs[0].readonly
  /\ fs[0].bytes = cfg.max_disk_bytes

(***************************************************************************)
(* C31  State unchanged on a failed send.  A send that returns Full leaves *)
(* sender_seq_num, path, bytes_written, the write handle and               *)
(* total_disk_writes as they were when it was called, and no file with     *)
(* other contents or permissions.  A send comes to the read of the counter *)
(* through lines 119-125 alone, which turn the producer state b of its     *)
(* entry into RolledOver(b) and the files f into Sealed(f, b.path); so the *)
(* call leaves what it found exactly when the state it returns from is     *)
(* what those lines make of the state it returns to.                       *)
(***************************************************************************)
RolledOver(b) ==
  [b EXCEPT !.sender_seq_num = @ + 1, !.path = b.sender_seq_num + 1]

Sealed(files, k) ==
  IF files[k].exists THEN [files EXCEPT ![k].readonly = TRUE] ELSE files

FailedSendUnchanged ==
  [][ReturnsFull
      => /\ back'.total_disk_writes = call.tdw0
         /\ back = RolledOver(back')
         /\ fs = Sealed(fs', back'.path)
         /\ wbuf' = wbuf]_vars

(***************************************************************************)
(* C32  Contiguous sequence numbers.  Every queue file the producer        *)
(* creates has the sequence number of the file created before it, which is *)
(* the file of the write handle, plus one, whatever rollovers have failed  *)
(* before; and so the consumer's open of min + 1, at the end of a sealed   *)
(* file with records still owed, finds the file.                           *)
(***************************************************************************)
Created(k) == ~fs[k].exists /\ fs'[k].exists

ContiguousSequence ==
  /\ [][\A k \in FileIds : Created(k) => k = back.sender_fp + 1]_vars
  /\ [][(rcv.pc = "open" /\ rcv'.pc # "open")
          => (rcv.disk_writes_to_read > 0 /\ rcv'.pc = "read"
              /\ rcv'.fp = rcv.fp + 1)]_vars

(***************************************************************************)
(* C33  Remaining-files counter bounds.  The counter is never decremented  *)
(* when it is 0: the decrement of line 136 finds the counter at least as   *)
(* large as the load of line 126 found it, which was not 0.  And the       *)
(* counter never exceeds the max_disk_files it was initialized with.       *)
(***************************************************************************)
CounterBounds ==
  /\ [][disk_files_capacity' < disk_files_capacity
          => (disk_files_capacity > 0 /\ spc = "install"
              /\ disk_files_capacity' = disk_files_capacity - 1)]_vars
  /\ [](spc = "install" => disk_files_capacity > 0)
  /\ [](disk_files_capacity >= 0)
  /\ [](disk_files_capacity <= cfg.max_disk_files)

(***************************************************************************)
(* C34  Full only under real exhaustion.  A send returns Full only from    *)
(* the read of the remaining-files counter, which read 0, in a write that  *)
(* needed a rollover (no write file, or bytes_written + 4 + L over the     *)
(* cap), for a value that had to go to disk: the send began with           *)
(* total_disk_writes > 0, or its push_back found every slot filled.  A     *)
(* memory-mode push_back that finds a free slot puts the value there, and  *)
(* from there on the send returns Ok, whatever the counter reads.          *)
(***************************************************************************)
AfterPush == {"fetch_add", "lock_front", "notify"}

FullOnlyWhenExhausted ==
  /\ [][ReturnsFull
          => /\ call.op = "send"
             /\ spc = "open"
             /\ disk_files_capacity = 0
             /\ \/ back.sender_fp = NoFp
                \/ back.bytes_written + PAYLOAD_LEN_BYTES + call.payload_len
                     > cfg.max_disk_bytes
             /\ (call.ctx = "disk" /\ call.tdw0 > 0) \/ call.ctx = "mem"]_vars
  /\ [][(PushBackRuns /\ call.ctx = "mem")
          => /\ spc' = "write_to_disk" => AllFilled
             /\ ~AllFilled => (spc' = "fetch_add"
                               /\ data'[back.offset] = Memory(call.event))]_vars
  /\ [](call.ctx = "mem" => call.tdw0 = 0)
  /\ [][(spc \in AfterPush /\ spc' \notin AfterPush)
          => (spc' = "idle" /\ hist'.result.kind = "Ok")]_vars
  /\ [][(spc' \in OnDisk /\ spc \notin OnDisk /\ call'.ctx = "mem")
          => (spc = "push_back" /\ AllFilled)]_vars

\* A memory-mode send has just returned Full: every slot is filled, nothing
\* is pending on disk and the counter reads 0.
FullOnlyWhenExhaustedWitness ==
  /\ spc = "idle"
  /\ hist.result.kind = "Full"
  /\ back.total_disk_writes = 0
  /\ AllFilled
  /\ disk_files_capacity = 0

(***************************************************************************)
(* C35  Consumer mode switching.  The step that returns a popped Memory(v) *)
(* yields v, a value that was sent, and touches neither a file nor the     *)
(* read position nor the count of owed reads.  The step that returns a     *)
(* popped Disk(n) yields nothing and sets disk_writes_to_read to n.  Every *)
(* other yield is the record at the read position of the open read file,   *)
(* moves that position on by one and lowers disk_writes_to_read, which was *)
(* positive, by one; the read file's number never goes down.  The consumer *)
(* is inside pop_front only with disk_writes_to_read = 0, and at the disk  *)
(* only with disk_writes_to_read > 0.                                      *)
(***************************************************************************)
AtDisk == {"read", "metadata", "remove", "fetch_add", "open"}

InsidePopFront == {"lock", "check", "wait", "woken", "take", "dec"}

Yields == hist'.received # hist.received

ModeSwitching ==
  /\ [][(rcv.pc = "dec" /\ rcv'.pc # "dec" /\ rcv.elem.tag = "Memory")
          => /\ hist'.received = Append(hist.received, rcv.elem.v)
             /\ rcv.elem.v \in Range(hist.sent)
             /\ rcv'.pc = "idle"
             /\ fs' = fs
             /\ disk_files_capacity' = disk_files_capacity
             /\ rcv'.fp = rcv.fp /\ rcv'.pos = rcv.pos
             /\ rcv'.disk_writes_to_read = 0]_vars
  /\ [][(rcv.pc = "dec" /\ rcv'.pc # "dec" /\ rcv.elem.tag = "Disk")
          => /\ ~Yields
             /\ rcv'.pc = "read"
             /\ rcv'.disk_writes_to_read = rcv.elem.n
             /\ rcv.elem.n >= 1]_vars
  /\ [][(Yields /\ rcv.pc # "dec")
          => /\ rcv.pc = "read"
             /\ rcv.disk_writes_to_read > 0
             /\ rcv.pos < Len(fs[rcv.fp].recs)
             /\ hist'.received
                  = Append(hist.received, fs[rcv.fp].recs[rcv.pos + 1])
             /\ rcv'.pos = rcv.pos + 1 /\ rcv'.fp = rcv.fp
             /\ rcv'.disk_writes_to_read = rcv.disk_writes_to_read - 1
             /\ rcv'.pc = "idle"]_vars
  /\ [][rcv'.fp # rcv.fp => (rcv'.fp > rcv.fp /\ rcv'.pos = 0)]_vars
  /\ [][rcv'.disk_writes_to_read # rcv.disk_writes_to_read
          => (Yields \/ rcv.pc = "dec")]_vars
  /\ [](rcv.pc \in InsidePopFront => rcv.disk_writes_to_read = 0)
  /\ [](rcv.pc \in AtDisk => rcv.disk_writes_to_read > 0)

\* The consumer has returned the first of the two records of a Disk(2)
\* marker and owes the second.
ModeSwitchingWitness ==
  /\ rcv.pc = "idle"
  /\ rcv.disk_writes_to_read = 1
  /\ rcv.pos >= 1
  /\ rcv.last = "Some"
  /\ Len(hist.received) >= 2
  /\ hist.received[Len(hist.received)] = fs[rcv.fp].recs[rcv.pos]

(***************************************************************************)
(* C36  Consumer end-of-file handling.  A queue file is removed only by    *)
(* the consumer standing at the end of the file it has open, and only when *)
(* that file is read-only; the file removed is that file, and the file     *)
(* opened next is its successor.  At the end of a file that is not         *)
(* read-only the consumer removes nothing, keeps its file and its          *)
(* position, does not return None and goes back to the read.               *)
(***************************************************************************)
Removed(k) == fs[k].exists /\ ~fs'[k].exists

EndOfFileHandling ==
  /\ [][(rcv.pc = "metadata" /\ rcv'.pc # "metadata")
          => /\ rcv.pos = Len(fs[rcv.fp].recs)
             /\ fs' = fs
             /\ rcv'.fp = rcv.fp /\ rcv'.pos = rcv.pos
             /\ rcv'.last = rcv.last
             /\ rcv'.disk_writes_to_read = rcv.disk_writes_to_read
             /\ ~fs[rcv.fp].readonly => rcv'.pc = "read"
             /\ fs[rcv.fp].readonly => rcv'.pc = "remove"]_vars
  /\ [][(rcv'.last = "None" /\ rcv.last # "None") => rcv.pc = "open"]_vars
  /\ [][rcv'.fp # rcv.fp => (rcv.pc = "open" /\ rcv'.fp = rcv.fp + 1)]_vars
  /\ [](rcv.pc \in {"remove", "fetch_add", "open"} => fs[rcv.fp].readonly)
  /\ [][\A k \in FileIds :
          Removed(k) => /\ rcv.pc = "remove"
                        /\ k = rcv.fp
                        /\ fs[k].readonly
                        /\ rcv.pos = Len(fs[k].recs)]_vars

(***************************************************************************)
(* C37  Consumer retry after a failed rollover.  A failed open of the      *)
(* successor file ends the call with None and leaves disk_writes_to_read   *)
(* as it was; the records the consumer owes stay in files it will come to, *)
(* so a later call can return them; no file is removed while one of its    *)
(* records has not been returned; and the counter is incremented once for  *)
(* a removal, by the consumer, after it removed the file.                  *)
(***************************************************************************)
OpenFails == rcv.pc = "open" /\ rcv'.pc = "idle"

RetryAfterFailedRollover ==
  /\ [][OpenFails
          => /\ rcv'.last = "None"
             /\ rcv'.disk_writes_to_read = rcv.disk_writes_to_read
             /\ rcv.disk_writes_to_read > 0
             /\ fs' = fs
             /\ disk_files_capacity' = disk_files_capacity]_vars
  /\ [][disk_files_capacity' > disk_files_capacity
          => /\ rcv.pc = "fetch_add" /\ rcv'.pc = "open"
             /\ disk_files_capacity' = disk_files_capacity + 1
             /\ ~fs[rcv.seq_num].exists]_vars
  /\ [][\A k \in FileIds :
          Removed(k) => /\ rcv'.pc = "fetch_add" /\ rcv'.seq_num = k
                        /\ Range(fs[k].recs) \subseteq Range(hist.received)
                        /\ k = back.sender_fp => wbuf.recs = <<>>]_vars
  /\ [](rcv.disk_writes_to_read <= Len(Unread))

(***************************************************************************)
(* C38  Flush without pending writes, and flush twice.  A flush that finds *)
(* total_disk_writes = 0 returns Ok and changes no slot, no size, no field *)
(* of the producer's shared state, no file and no counter; only a flush    *)
(* that finds total_disk_writes > 0 gets to push_back, and the marker it   *)
(* pushes is Disk(total_disk_writes).  A flush that returns Ok leaves      *)
(* total_disk_writes = 0, so a flush right after it is of the first kind   *)
(* and pushes no second marker.                                            *)
(***************************************************************************)
FlushReturnsAtOnce == spc = "idle" /\ spc' = "idle" /\ hist'.result # hist.result

FlushIdempotent ==
  /\ [][FlushReturnsAtOnce
          => /\ hist'.result.op = "flush" /\ hist'.result.kind = "Ok"
             /\ back.total_disk_writes = 0
             /\ UNCHANGED <<data, size, back, wbuf, fs, disk_files_capacity,
                            back_lock, front_lock, front_offset, call, rcv>>
             /\ hist'.sent = hist.sent /\ hist'.received = hist.received]_vars
  /\ [][(spc = "idle" /\ spc' # "idle" /\ back.total_disk_writes = 0)
          => call'.op = "send"]_vars
  /\ [](call.ctx = "flush" => (call.op = "flush" /\ call.tdw0 > 0))
  /\ [][(MarkerPlaced /\ call.ctx = "flush")
          => /\ back.total_disk_writes = call.tdw0
             /\ data' = [data EXCEPT ![back.offset] = Disk(call.tdw0)]]_vars
  /\ [][(call.op = "flush" /\ spc # "idle" /\ spc' = "idle"
         /\ hist'.result.kind = "Ok")
          => back'.total_disk_writes = 0]_vars

\* A flush has returned Ok, its marker is the only placement in the deque
\* and nothing is pending: the state a second flush starts from.
FlushIdempotentWitness ==
  /\ spc = "idle"
  /\ hist.result.op = "flush" /\ hist.result.kind = "Ok"
  /\ back.total_disk_writes = 0
  /\ Len(Ring) = 1
  /\ Ring[1].tag = "Disk"
  /\ Len(Written) >= 1

(***************************************************************************)
(* The deque on its own (src/src/deque.rs): a thread that holds the back   *)
(* guard calls Queue::push_back and Queue::pop_back_no_block, while the    *)
(* consumer runs pop_front.  pop_back_no_block has no caller in the crate; *)
(* it is the rollback of a push.  The values it hands back to the producer *)
(* are collected in hist.rejected.  size is an AtomicUsize; the model lets *)
(* a fetch_sub at 0 go to -1 where the program wraps to usize::MAX.        *)
(***************************************************************************)
MaxDequeOps == 4         \* push_back and pop_back_no_block calls in a run

\* What decides whether pop_front took or returned an element in between.
ConsumerMark == <<rcv.pc = "dec", Len(hist.received), rcv.pc = "dead">>

\* The locals of the holder of the back guard: the running operation, the
\* element pop_back_no_block has read, whether the last push asked for a
\* notify, whether the operation before was a push_back that returned Ok,
\* and the deque as that push found it.
GuardHeld == [op |-> "none", event |-> NoVal, elem |-> NullPtr,
              must_wake |-> FALSE, pushed |-> FALSE, undo |-> FALSE,
              before |-> <<>>]

\* Queue::lock_back.
lock_back(p) ==
  /\ spc = "idle"
  /\ back_lock = 0
  /\ p <= cfg.senders
  /\ hist.calls < cfg.calls
  /\ back_lock' = p
  /\ spc' = "held"
  /\ call' = GuardHeld
  /\ UNCHANGED <<cfg, data, size, back, wbuf, front_lock, front_offset, fs,
                 disk_files_capacity, rcv, hist>>

\* The back guard is dropped.
drop_back_guard(p) ==
  /\ spc = "held"
  /\ back_lock = p
  /\ ~call.must_wake
  /\ back_lock' = 0
  /\ spc' = "idle"
  /\ call' = NoCall
  /\ UNCHANGED <<cfg, data, size, back, wbuf, front_lock, front_offset, fs,
                 disk_files_capacity, rcv, hist>>

\* InnerQueue::push_back, lines 93-98: Full when the slot under the back
\* offset is occupied, else the slot is written and the offset advanced.
queue_push_back(p) ==
  /\ spc = "held"
  /\ back_lock = p
  /\ ~call.must_wake
  /\ hist.calls < cfg.calls
  /\ LET elem == <<p, hist.calls + 1>>
     IN  IF data[back.offset] # NullPtr
           THEN /\ call' = [GuardHeld EXCEPT !.op = "push_back"]
                /\ hist' = [hist EXCEPT
                     !.calls = @ + 1,
                     !.result = [p |-> p, op |-> "push_back", kind |-> "Full",
                                 val |-> elem, n |-> hist.calls + 1]]
                /\ UNCHANGED <<data, back, spc>>
           ELSE /\ data' = [data EXCEPT ![back.offset] = Memory(elem)]
                /\ back' = [back EXCEPT !.offset = (@ + 1) % cfg.capacity]
                /\ call' = [GuardHeld EXCEPT
                     !.op = "push_back", !.event = elem,
                     !.before = [data |-> data, offset |-> back.offset,
                                 size |-> size, mark |-> ConsumerMark]]
                /\ hist' = [hist EXCEPT !.calls = @ + 1]
                /\ spc' = "size_fetch_add"
  /\ UNCHANGED <<cfg, size, wbuf, back_lock, front_lock, front_offset, fs,
                 disk_files_capacity, rcv>>

\* InnerQueue::push_back, lines 99-103: size.fetch_add and Ok(must_wake).
queue_push_back_fetch_add(p) ==
  /\ spc = "size_fetch_add"
  /\ back_lock = p
  /\ size' = size + 1
  /\ call' = [call EXCEPT !.must_wake = (size = 0), !.pushed = TRUE]
  /\ hist' = [hist EXCEPT
       !.sent = Append(@, call.event),
       !.result = [p |-> p, op |-> "push_back", kind |-> "Ok",
                   val |-> call.event, n |-> hist.calls]]
  /\ spc' = "held"
  /\ UNCHANGED <<cfg, data, back, wbuf, back_lock, front_lock, front_offset,
                 fs, disk_files_capacity, rcv>>

\* The caller's part after Ok(true): lock_front, Queue::notify_not_empty,
\* drop of the front guard.
queue_notify_not_empty(p) ==
  /\ spc = "held"
  /\ back_lock = p
  /\ call.must_wake
  /\ front_lock = 0
  /\ rcv' = IF rcv.pc = "wait" THEN [rcv EXCEPT !.pc = "woken"] ELSE rcv
  /\ call' = [call EXCEPT !.must_wake = FALSE]
  /\ UNCHANGED <<cfg, data, size, back, wbuf, back_lock, front_lock,
                 front_offset, fs, disk_files_capacity, spc, hist>>

\* InnerQueue::pop_back_no_block, line 112: None when size reads 0.
pop_back_no_block(p) ==
  /\ spc = "held"
  /\ back_lock = p
  /\ ~call.must_wake
  /\ hist.calls < cfg.calls
  /\ IF size = 0
       THEN /\ call' = [GuardHeld EXCEPT !.op = "pop_back_no_block"]
            /\ hist' = [hist EXCEPT
                 !.calls = @ + 1,
                 !.result = [p |-> p, op |-> "pop_back_no_block",
                             kind |-> "None", val |-> NoVal,
                             n |-> hist.calls + 1]]
            /\ UNCHANGED spc
       ELSE /\ call' = [call EXCEPT !.op = "pop_back_no_block",
                                    !.undo = call.pushed, !.pushed = FALSE]
            /\ hist' = [hist EXCEPT !.calls = @ + 1]
            /\ spc' = "rewind"
  /\ UNCHANGED <<cfg, data, size, back, wbuf, back_lock, front_lock,
                 front_offset, fs, disk_files_capacity, rcv>>

\* Faulty variant of pop_back_no_block_rewind: the element behind the back
\* offset is read and the offset is left where it is, as the comment at
\* lines 206-210 has it.
pop_back_no_block_no_shift(p) ==
  /\ spc = "rewind"
  /\ back_lock = p
  /\ call' = [call EXCEPT
       !.elem = data[(back.offset + cfg.capacity - 1) % cfg.capacity]]
  /\ spc' = "null"
  /\ UNCHANGED <<cfg, data, size, back, wbuf, back_lock, front_lock,
                 front_offset, fs, disk_files_capacity, rcv, hist>>

\* Lines 116-122: the back offset is rewound by one, to capacity - 1 from 0,
\* and the pointer in the slot under it is read.
pop_back_no_block_rewind(p) ==
  /\ spc = "rewind"
  /\ back_lock = p
  /\ LET offset == IF back.offset - 1 < 0 THEN cfg.capacity - 1
                                            ELSE back.offset - 1
     IN  /\ back' = [back EXCEPT !.offset = offset]
         /\ call' = [call EXCEPT !.elem = data[offset]]
  /\ spc' = "null"
  /\ UNCHANGED <<cfg, data, size, wbuf, back_lock, front_lock, front_offset,
                 fs, disk_files_capacity, rcv, hist>>

\* Line 123: the slot is nulled.
pop_back_no_block_null(p) ==
  /\ spc = "null"
  /\ back_lock = p
  /\ data' = [data EXCEPT ![back.offset] = NullPtr]
  /\ spc' = "size_fetch_sub"
  /\ UNCHANGED <<cfg, size, back, wbuf, back_lock, front_lock, front_offset,
                 fs, disk_files_capacity, call, rcv, hist>>

\* Lines 124-125: size.fetch_sub and Some(*elem).
pop_back_no_block_fetch_sub(p) ==
  /\ spc = "size_fetch_sub"
  /\ back_lock = p
  /\ size' = size - 1
  /\ hist' = [hist EXCEPT
       !.rejected = IF call.elem # NullPtr THEN @ \cup {call.elem.v} ELSE @,
       !.result = [p |-> p, op |-> "pop_back_no_block",
                   kind |-> IF call.elem # NullPtr THEN "Some" ELSE "Null",
                   val |-> call.elem.v, n |-> hist.calls]]
  /\ call' = [call EXCEPT !.elem = NullPtr]
  /\ spc' = "held"
  /\ UNCHANGED <<cfg, data, back, wbuf, back_lock, front_lock, front_offset,
                 fs, disk_files_capacity, rcv>>

ProducerOfDeque(p) ==
  \/ lock_back(p)
  \/ drop_back_guard(p)
  \/ queue_push_back(p)
  \/ queue_push_back_fetch_add(p)
  \/ queue_notify_not_empty(p)
  \/ pop_back_no_block(p)
  \/ pop_back_no_block_rewind(p)
  \/ pop_back_no_block_null(p)
  \/ pop_back_no_block_fetch_sub(p)

ConsumerOfDeque ==
  \/ next_value
  \/ pop_front_lock
  \/ pop_front_check
  \/ pop_front_spurious_wake
  \/ pop_front_wake
  \/ pop_front_take
  \/ pop_front_dec

NextDeque == (\E p \in Senders : ProducerOfDeque(p)) \/ ConsumerOfDeque

InitDeque == InitWith(MemoryBytesArgs, DiskBytesArgs, {0}, NumSenders,
                      MaxDequeOps)

DequeSpec == InitDeque /\ [][NextDeque]_vars

(***************************************************************************)
(* C39  pop_back_no_block undoes push_back.  pop_back_no_block returns     *)
(* None, and changes nothing, exactly when size reads 0.  Otherwise it     *)
(* rewinds the back offset by one modulo the capacity, to capacity - 1     *)
(* from 0; and when it follows a push_back(v) that returned Ok, under the  *)
(* same guard and with no take or return of pop_front since that push      *)
(* began, it returns v and leaves the slots, the back offset and size as   *)
(* the push found them.                                                    *)
(***************************************************************************)
PopBackStarts ==
  spc = "held" /\ hist'.calls # hist.calls /\ call'.op = "pop_back_no_block"

SeqRange(s) == {s[i] : i \in 1..Len(s)}

\* The values pop_front has read out of a slot, returned or about to be.
TakenAtFront ==
  SeqRange(hist.received)
    \cup (IF rcv.pc = "dec" /\ rcv.elem # NullPtr THEN {rcv.elem.v} ELSE {})

\* The values pop_back_no_block has read out of a slot.
TakenAtBack ==
  hist.rejected
    \cup (IF spc \in {"null", "size_fetch_sub"} /\ call.elem # NullPtr
            THEN {call.elem.v} ELSE {})

PopBackSafeAgainstPopFront ==
  /\ TakenAtFront \cap TakenAtBack = {}
  /\ rcv.pc = "dec" => rcv.elem # NullPtr
  /\ spc \in {"null", "size_fetch_sub"} => call.elem # NullPtr
  /\ rcv.pc # "dead"
  /\ size >= 0

=============================================================================
